---- MODULE Spec2Model ----
(***************************************************************************)
(* Verification orchestrator, measurement comparator and code-provenance   *)
(* verifier of the tinfoil verifier packages.                              *)
(*                                                                         *)
(* Strings that the code compares or concatenates character by character   *)
(* (digests, measurement registers, fingerprints) are sequences of         *)
(* one-character strings; '' is the empty sequence.  Identifiers that the  *)
(* code only compares as a whole (predicate types, hosts, error messages)  *)
(* are TLA+ strings.                                                       *)
(***************************************************************************)
EXTENDS Integers, Sequences, FiniteSets, TLC

(***************************************************************************)
(* Bounds                                                                  *)
(***************************************************************************)
\* total number of verify() invocations started on the instance
MaxCalls == 2
\* length of a hex digest in characters
DigestLen == 2
\* largest number of registers of a measurement handed to compareMeasurements
MaxRegisters == 2
\* bytes in which a buffer differs from a base report
MaxPokes == 1
\* flags enabled in a guest policy
MaxFlags == 2
\* places in which a validateReport input differs from a passing one
MaxDeviations == 3
\* verify() invocations of a run in which the requests sent are recorded
MaxRecordedCalls == 1

\* verify() invocations that may be in flight at the same time
Procs == {"callA", "callB"}

HexChars == {"a", "A", "b"}

\* String.prototype.toLowerCase on one hex character
LowerChar(c) == IF c = "A" THEN "a" ELSE c

\* toLowerCase on a string
Lower(s) == [i \in 1..Len(s) |-> LowerChar(s[i])]

Digests == [1..DigestLen -> HexChars]

\* hex strings used as measurement registers
Registers == {<<"a">>, <<"b">>}

(***************************************************************************)
(* types.ts                                                                *)
(***************************************************************************)
SevGuestV1 == "https://tinfoil.sh/predicate/sev-snp-guest/v1"
SevGuestV2 == "https://tinfoil.sh/predicate/sev-snp-guest/v2"
SnpTdxMultiplatformV1 == "https://tinfoil.sh/predicate/snp-tdx-multiplatform/v1"
\* a predicate type outside the SNP family, and the '' type of a failed document
OtherType == "https://tinfoil.sh/predicate/other/v1"
EmptyType == ""

PredicateType == {SevGuestV1, SevGuestV2, SnpTdxMultiplatformV1}

isSnpCompatible(type) ==
    \/ type = SevGuestV1
    \/ type = SevGuestV2
    \/ type = SnpTdxMultiplatformV1

\* a.registers.every((reg, i) => reg === b.registers[i]); b.registers[i] is
\* undefined past the end of b
registersEvery(a, b) ==
    \A i \in 1..Len(a.registers) :
        /\ i <= Len(b.registers)
        /\ a.registers[i] = b.registers[i]

\* variant: the length comparison is left out
compareMeasurements_NoLengthCheck(a, b) ==
    LET typesCompatible ==
            \/ a.type = b.type
            \/ (isSnpCompatible(a.type) /\ isSnpCompatible(b.type))
    IN  IF ~typesCompatible
        THEN "FormatMismatchError"
        ELSE IF ~registersEvery(a, b)
             THEN "MeasurementMismatchError"
             ELSE "ok"

\* compareMeasurements returns "ok" or the name of the error it throws
compareMeasurements(a, b) ==
    LET typesCompatible ==
            \/ a.type = b.type
            \/ (isSnpCompatible(a.type) /\ isSnpCompatible(b.type))
    IN  IF ~typesCompatible
        THEN "FormatMismatchError"
        ELSE IF \/ Len(a.registers) # Len(b.registers)
                \/ ~registersEvery(a, b)
             THEN "MeasurementMismatchError"
             ELSE "ok"

\* registers.join('')
RECURSIVE join(_)
join(regs) == IF regs = <<>> THEN <<>> ELSE Head(regs) \o join(Tail(regs))

\* SHA-256 of a string, hex-encoded: an injective tag around the hashed text
sha256Hex(text) == <<"sha256", text>>

\* variant: the single-register shortcut is left out
measurementFingerprint_AlwaysHash(m) ==
    sha256Hex(<<m.type>> \o join(m.registers))

measurementFingerprint(m) ==
    IF Len(m.registers) = 1
    THEN m.registers[1]
    ELSE sha256Hex(<<m.type>> \o join(m.registers))

EmptyMeasurement == [type |-> EmptyType, registers |-> <<>>]

(***************************************************************************)
(* Code-provenance verifier: sigstore.ts in its three copies               *)
(***************************************************************************)
\* the copies of verifyAttestation: packages/verifier (sigstore-browser with
\* a policy object), the DSSE/verifyArtifact browser copy, and the Node copy
ImplPolicy == "browser-policy"
ImplArtifact == "browser-artifact"
ImplNode == "node"
Impls == {ImplPolicy, ImplArtifact, ImplNode}

GITHUB_OIDC_ISSUER == "https://token.actions.githubusercontent.com"
InTotoPayloadType == "application/vnd.in-toto+json"
DEFAULT_CONFIG_REPO == "tinfoilsh/confidential-model-router"
Repos == {DEFAULT_CONFIG_REPO, "attacker/fork"}

\* a workflow reference is the list of its '/'-separated segments;
\* "refs/tags/" is <<"refs", "tags", "">>; NoExt: the certificate carries no
\* GitHubWorkflowRef extension
NoExt == <<"no-extension">>
WorkflowRefs == { <<"refs", "tags", "v1">>, <<"refs", "heads", "main">>,
                  <<"refs", "tags", "">>, NoExt }

\* /^refs\/tags\//.test(ref)
matchesRefsTagsPrefix(ref) ==
    /\ Len(ref) >= 3
    /\ ref[1] = "refs"
    /\ ref[2] = "tags"

\* /^refs\/tags\/.+$/.test(ref)
matchesRefsTagsNonEmpty(ref) ==
    /\ matchesRefsTagsPrefix(ref)
    /\ (Len(ref) > 3 \/ ref[3] # "")

\* GitHubWorkflowRefPattern.verify(cert): TRUE when it returns, FALSE when it throws
GitHubWorkflowRefPattern(ref) ==
    IF ref = NoExt THEN FALSE ELSE matchesRefsTagsPrefix(ref)

\* the identity the Node copy hands to the sigstore verifier: the getters of
\* GitHubActionsPolicy (subjectAlternativeName, extensions.issuer); the
\* private workflowRefPattern field is behind no getter
GitHubActionsPolicy(bundle, repo) ==
    /\ bundle.issuer = GITHUB_OIDC_ISSUER
    /\ bundle.repo = repo

\* verification of the envelope under the policy each copy builds
policyAccepts(impl, bundle, repo) ==
    /\ bundle.envelopeValid
    /\ CASE impl = ImplPolicy ->
                /\ bundle.issuer = GITHUB_OIDC_ISSUER
                /\ bundle.repo = repo
                /\ GitHubWorkflowRefPattern(bundle.workflowRef)
         [] impl = ImplArtifact ->
                /\ bundle.issuer = GITHUB_OIDC_ISSUER
                /\ bundle.repo = repo
                /\ bundle.workflowRef # NoExt
                /\ matchesRefsTagsNonEmpty(bundle.workflowRef)
         [] OTHER -> GitHubActionsPolicy(bundle, repo)

\* variant: the digests are compared after lower-casing
digestMismatch_CaseInsensitive(digest, subjectDigest) ==
    Lower(digest) # Lower(subjectDigest)

\* digest !== payload.subject[0].digest.sha256
digestMismatch(digest, subjectDigest) == digest # subjectDigest

NoPredicate == [present |-> FALSE, measurement |-> <<>>, snp_measurement |-> <<>>]
Predicates == {NoPredicate} \cup
    [present : {TRUE}, measurement : {<<>>, <<"a">>}, snp_measurement : {<<>>, <<"b">>}]

Bundles == [ envelopeValid : BOOLEAN,
             issuer : {GITHUB_OIDC_ISSUER, "https://accounts.example.com"},
             repo : Repos,
             workflowRef : WorkflowRefs,
             payloadType : {InTotoPayloadType, "text/plain"},
             subjectDigest : Digests,
             predicateType : PredicateType,
             predicate : Predicates ]

Rejected(cause) == [ok |-> FALSE, cause |-> cause, measurement |-> EmptyMeasurement]
Accepted(m) == [ok |-> TRUE, cause |-> "", measurement |-> m]

\* verifyAttestation(bundleJson, digest, repo): the measurement it returns, or
\* the cause of the 'Attestation processing failed' error it throws
verifySigstoreAttestation(impl, bundle, digest, repo) ==
    IF ~policyAccepts(impl, bundle, repo)
    THEN Rejected("policy")
    ELSE IF bundle.payloadType # InTotoPayloadType
    THEN Rejected("Unsupported payload type")
    ELSE IF digestMismatch(digest, bundle.subjectDigest)
    THEN Rejected("Provided digest does not match verified DSSE payload digest")
    ELSE IF ~bundle.predicate.present
    THEN Rejected("Payload does not contain predicate")
    ELSE IF bundle.predicateType = SevGuestV1
    THEN IF bundle.predicate.measurement = <<>>
         THEN Rejected("SEV Guest V1 predicate does not contain measurement")
         ELSE Accepted([type |-> SevGuestV1,
                        registers |-> <<bundle.predicate.measurement>>])
    ELSE IF bundle.predicateType = SnpTdxMultiplatformV1
    THEN IF bundle.predicate.snp_measurement = <<>>
         THEN Rejected("SNP TDX Multiplatform V1 predicate does not contain snp_measurement")
         ELSE Accepted([type |-> SnpTdxMultiplatformV1,
                        registers |-> <<bundle.predicate.snp_measurement>>])
    ELSE Rejected("Unsupported predicate type")

(***************************************************************************)
(* attestation.ts                                                          *)
(***************************************************************************)
\* an attestation document: its format tag and what verifySevReport makes
\* of its body (reportValid) with the measurement bytes of the report
AttestationDocuments == [ format : PredicateType,
                          reportValid : BOOLEAN,
                          measurement : Registers ]

\* verifyAttestation(doc) of attestation.ts: V1 and V2 documents are verified
\* by verifySevReport, every other format is unsupported
verifyAmdAttestation(doc) ==
    IF doc.format \in {SevGuestV1, SevGuestV2}
    THEN IF doc.reportValid
         THEN Accepted([type |-> doc.format, registers |-> <<doc.measurement>>])
         ELSE Rejected("Attestation verification failed!")
    ELSE Rejected("Unsupported attestation format")

(***************************************************************************)
(* sev/constants.ts and sev/report.ts: the attestation report parser       *)
(*                                                                         *)
(* A buffer is its length and its non-zero bytes (offset |-> value); every *)
(* other byte is 0.  A 64-bit little-endian word is the sequence of its    *)
(* eight bytes, least significant first.                                   *)
(***************************************************************************)
POLICY_RESERVED_1_BIT == 17
REPORT_SIZE == \H4A0
SIGNATURE_OFFSET == \H2A0
ECDSA_RS_SIZE == 72
ECDSA_P384_SHA384_SIGNATURE_SIZE == ECDSA_RS_SIZE + ECDSA_RS_SIZE
ZEN3ZEN4_FAMILY == \H19
ZEN5_FAMILY == \H1A
MILAN_MODEL == 1
GENOA_MODEL == \H11
TURIN_MODEL == 2
VcekReportSigner == 0
VlekReportSigner == 1

\* data[i]
byteAt(data, i) == IF i \in DOMAIN data.bytes THEN data.bytes[i] ELSE 0

\* view.getUint8(o), view.getUint32(o, true), view.getBigUint64(o, true)
getUint8(data, o) == byteAt(data, o)
getUint32(data, o) ==
    byteAt(data, o) + 256 * byteAt(data, o + 1) + 65536 * byteAt(data, o + 2)
        + 16777216 * byteAt(data, o + 3)
getBigUint64(data, o) == [k \in 1..8 |-> byteAt(data, o + k - 1)]

\* BigInt(view.getUint32(o, true)) as a word of four bytes
getUint32Word(data, o) == [k \in 1..4 |-> byteAt(data, o + k - 1)]

\* bit i of a byte and of a word
bitOf(n, i) == (n \div (2 ^ i)) % 2
bit64(word, i) == bitOf(word[(i \div 8) + 1], i % 8)

\* findNonZero(data, lo, hi) !== hi: some byte of [lo, hi) is not zero
findNonZero(data, lo, hi) == \E i \in DOMAIN data.bytes : lo <= i /\ i < hi /\ data.bytes[i] # 0

\* mbz(data, lo, hi) throws
mbz(data, lo, hi) == findNonZero(data, lo, hi)

\* mbz64(data, base, hi, lo) throws: some bit of data[hi:lo] is set
mbz64(word, hi, lo) == \E i \in lo..hi : bit64(word, i) = 1

\* Report.initProductName
initProductName(family, model) ==
    IF family = ZEN3ZEN4_FAMILY
    THEN IF model = MILAN_MODEL THEN "Milan"
         ELSE IF model = GENOA_MODEL THEN "Genoa"
         ELSE "Unknown"
    ELSE IF family = ZEN5_FAMILY
    THEN IF model = TURIN_MODEL THEN "Turin" ELSE "Unknown"
    ELSE "Unknown"

NoReport == [version |-> 0]

\* an error message: its text and the numbers it is formatted with
Message(text) == [text |-> text, numbers |-> <<>>]

\* the message of the size check
ArraySizeError(length) ==
    [text |-> "Array size is 0x.., an SEV-SNP attestation report size is 0x..",
     numbers |-> <<length, REPORT_SIZE>>]

\* new Report(data) throws message, after the constructor assigned the first
\* `assigned` fields of the object
ReportThrows(message, assigned) ==
    [ok |-> FALSE, error |-> message, assigned |-> assigned, report |-> NoReport]

\* variant: version 2 reads the product identity from the buffer as well
ProductIdentity_Version2ReadsBuffer(data, version) ==
    IF version >= 2
    THEN [known |-> TRUE,
          family |-> getUint8(data, \H188), model |-> getUint8(data, \H189),
          stepping |-> getUint8(data, \H18A),
          productName |-> initProductName(getUint8(data, \H188), getUint8(data, \H189)),
          mbzLo |-> \H18B]
    ELSE [known |-> FALSE, family |-> 0, model |-> 0, stepping |-> 0,
          productName |-> "", mbzLo |-> \H188]

\* the version-specific part of the constructor: the product identity and the
\* start of the must-be-zero span that follows it
ProductIdentity(data, version) ==
    IF version >= 3
    THEN [known |-> TRUE,
          family |-> getUint8(data, \H188), model |-> getUint8(data, \H189),
          stepping |-> getUint8(data, \H18A),
          productName |-> initProductName(getUint8(data, \H188), getUint8(data, \H189)),
          mbzLo |-> \H18B]
    ELSE IF version = 2
    THEN [known |-> TRUE,
          family |-> ZEN3ZEN4_FAMILY, model |-> GENOA_MODEL, stepping |-> 1,
          productName |-> "Genoa", mbzLo |-> \H188]
    ELSE [known |-> FALSE, family |-> 0, model |-> 0, stepping |-> 0,
          productName |-> "", mbzLo |-> \H188]

\* new Report(data) once the size check passed
ParseFields(data) ==
    LET version == getUint32(data, \H00)
        policy == getBigUint64(data, \H08)
        vmpl == getUint32(data, \H30)
        signatureAlgo == getUint32(data, \H34)
        currentTcb == getBigUint64(data, \H38)
        platformInfo == getBigUint64(data, \H40)
        signerInfo == getUint32Word(data, \H48)
        \* (this.signerInfo >> 2) & 7
        signingKey == (signerInfo[1] \div 4) % 8
        reportedTcb == getBigUint64(data, \H180)
        product == ProductIdentity(data, version)
        committedTcb == getBigUint64(data, \H1E0)
        launchTcb == getBigUint64(data, \H1F0)
    IN  IF bit64(policy, POLICY_RESERVED_1_BIT) = 0
        THEN ReportThrows(Message("policy[17] is reserved, must be 1, got 0"), 3)
        ELSE IF \E i \in 26..63 : bit64(policy, i) = 1
        THEN ReportThrows(Message("policy bits 63-26 must be zero"), 3)
        ELSE IF mbz64(currentTcb, 47, 16)
        THEN ReportThrows(Message("current_tcb not correctly formed"), 8)
        ELSE IF mbz64(signerInfo, 31, 5)
        THEN ReportThrows(Message("signer_info not correctly formed"), 12)
        ELSE IF signingKey # VcekReportSigner
        THEN ReportThrows(Message("This implementation only supports VCEK signed reports"), 12)
        ELSE IF mbz(data, \H4C, \H50)
        THEN ReportThrows(Message("report_data not correctly formed"), 13)
        ELSE IF mbz64(reportedTcb, 47, 16)
        THEN ReportThrows(Message("reported_tcb not correctly formed"), 21)
        ELSE IF ~product.known
        THEN ReportThrows(Message("Unknown report version"), 21)
        ELSE IF mbz(data, product.mbzLo, \H1A0)
        THEN ReportThrows(Message("report_data not correctly formed"), 25)
        ELSE IF mbz64(committedTcb, 47, 16)
        THEN ReportThrows(Message("committed_tcb not correctly formed"), 27)
        ELSE IF mbz(data, \H1EB, \H1EC)
        THEN ReportThrows(Message("report_data not correctly formed"), 30)
        ELSE IF mbz(data, \H1EF, \H1F0)
        THEN ReportThrows(Message("report_data not correctly formed"), 33)
        ELSE IF mbz64(launchTcb, 47, 16)
        THEN ReportThrows(Message("launch_tcb not correctly formed"), 34)
        ELSE IF mbz(data, \H1F8, SIGNATURE_OFFSET)
        THEN ReportThrows(Message("report_data not correctly formed"), 34)
        ELSE IF signatureAlgo = 1
                /\ mbz(data, SIGNATURE_OFFSET + ECDSA_P384_SHA384_SIGNATURE_SIZE, REPORT_SIZE)
        THEN ReportThrows(Message("report_data not correctly formed"), 34)
        ELSE [ok |-> TRUE, error |-> Message(""), assigned |-> 36,
              report |-> [version |-> version,
                          policy |-> policy,
                          vmpl |-> vmpl,
                          signatureAlgo |-> signatureAlgo,
                          currentTcb |-> currentTcb,
                          platformInfo |-> platformInfo,
                          signingKey |-> signingKey,
                          maskChipKey |-> bit64(signerInfo, 1) = 1,
                          authorKeyEn |-> bit64(signerInfo, 0) = 1,
                          reportedTcb |-> reportedTcb,
                          family |-> product.family,
                          model |-> product.model,
                          stepping |-> product.stepping,
                          productName |-> product.productName,
                          committedTcb |-> committedTcb,
                          launchTcb |-> launchTcb]]

\* variant: the constructor without its size check; DataView reads past the
\* end of a short buffer throw a RangeError
Report_NoSizeCheck(data) ==
    IF data.length < 8 + 8
    THEN ReportThrows(Message("RangeError: Offset is outside the bounds of the DataView"), 0)
    ELSE ParseFields(data)

\* new Report(data)
Report(data) ==
    IF data.length < REPORT_SIZE
    THEN ReportThrows(ArraySizeError(data.length), 0)
    ELSE ParseFields(data)

(***************************************************************************)
(* new Report applied to buffers that differ from a report of a given      *)
(* version, signature algorithm and product in at most MaxPokes bytes      *)
(***************************************************************************)
\* keep the non-zero bytes only
NonZero(f) == [i \in {j \in DOMAIN f : f[j] # 0} |-> f[i]]

\* <<family, model>> bytes at 0x188, 0x189
ProductBytes == { <<0, 0>>, <<ZEN3ZEN4_FAMILY, MILAN_MODEL>>,
                  <<ZEN3ZEN4_FAMILY, GENOA_MODEL>>, <<ZEN5_FAMILY, TURIN_MODEL>> }
Versions == {1, 2, 3}
SignatureAlgos == {0, 1}
BufferLengths == {REPORT_SIZE - 1, REPORT_SIZE}

\* a buffer with the policy's reserved-one bit set and everything else zero
\* but the version, the signature algorithm and the product bytes
BaseBuffer(length, version, algo, product) ==
    [length |-> length,
     bytes |-> NonZero([i \in {\H00, \H0A, \H34, \H188, \H189} |->
                  CASE i = \H00 -> version
                    [] i = \H0A -> 2
                    [] i = \H34 -> algo
                    [] i = \H188 -> product[1]
                    [] i = \H189 -> product[2]])]

PokeOffsets ==
    { \H00, \H03, \H0A, \H0B, \H0F, \H30, \H34, \H38, \H3A, \H40, \H48, \H4B,
      \H4C, \H4F, \H50, \H182, \H188, \H18A, \H18B, \H19F, \H1A0, \H1E2,
      \H1EB, \H1EF, \H1F2, \H1F8, \H29F, \H2A0, \H32F, \H330, \H49F }
PokeValues == {0, 1, 4, \H20}
Pokes == PokeOffsets \X PokeValues

\* data[poke[1]] = poke[2]; a write past the end of a typed array is ignored
Poke(data, poke) ==
    IF poke[1] >= data.length
    THEN data
    ELSE [data EXCEPT !.bytes =
            NonZero([i \in DOMAIN data.bytes \cup {poke[1]} |->
                        IF i = poke[1] THEN poke[2] ELSE data.bytes[i]])]

RECURSIVE PokeAll(_, _)
PokeAll(data, pokes) ==
    IF pokes = <<>> THEN data ELSE PokeAll(Poke(data, Head(pokes)), Tail(pokes))

PendingReport == ReportThrows(Message("pending"), 0)
IdleRep == [data |-> [length |-> 0, bytes |-> <<>>], result |-> ReportThrows(Message("idle"), 0)]

(***************************************************************************)
(* sev/validation.ts: validatePolicy and validatePlatformInfo              *)
(***************************************************************************)
PolicyFlags == {"smt", "migrateMa", "debug", "singleSocket", "cxlAllowed",
                "memAes256Xts", "raplDis", "ciphertextHidingDram", "pageSwapDisabled"}

\* an SnpPolicy with the given flags enabled
SnpPolicy(flags, abiMajor, abiMinor) ==
    [abiMinor |-> abiMinor, abiMajor |-> abiMajor,
     smt |-> "smt" \in flags,
     migrateMa |-> "migrateMa" \in flags,
     debug |-> "debug" \in flags,
     singleSocket |-> "singleSocket" \in flags,
     cxlAllowed |-> "cxlAllowed" \in flags,
     memAes256Xts |-> "memAes256Xts" \in flags,
     raplDis |-> "raplDis" \in flags,
     ciphertextHidingDram |-> "ciphertextHidingDram" \in flags,
     pageSwapDisabled |-> "pageSwapDisabled" \in flags]

\* policyFromInt(value) for a policy word
policyFromInt(value) ==
    [abiMinor |-> value[1], abiMajor |-> value[2],
     smt |-> bit64(value, 16) = 1,
     migrateMa |-> bit64(value, 18) = 1,
     debug |-> bit64(value, 19) = 1,
     singleSocket |-> bit64(value, 20) = 1,
     cxlAllowed |-> bit64(value, 21) = 1,
     memAes256Xts |-> bit64(value, 22) = 1,
     raplDis |-> bit64(value, 23) = 1,
     ciphertextHidingDram |-> bit64(value, 24) = 1,
     pageSwapDisabled |-> bit64(value, 25) = 1]

comparePolicyVersions(required, report) ==
    IF required.abiMajor # report.abiMajor
    THEN required.abiMajor - report.abiMajor
    ELSE required.abiMinor - report.abiMinor

\* variant: the CXL capability is not checked
validatePolicy_NoCxlCheck(reportPolicy, required) ==
    IF comparePolicyVersions(required, reportPolicy) > 0
    THEN "Required ABI version is greater than report's ABI version"
    ELSE IF ~required.migrateMa /\ reportPolicy.migrateMa
    THEN "Found unauthorized migration agent capability"
    ELSE IF ~required.debug /\ reportPolicy.debug
    THEN "Found unauthorized debug capability"
    ELSE IF ~required.smt /\ reportPolicy.smt
    THEN "Found unauthorized symmetric multithreading (SMT) capability"
    ELSE IF ~required.memAes256Xts /\ reportPolicy.memAes256Xts
    THEN "Found unauthorized memory encryption mode"
    ELSE IF required.singleSocket /\ ~reportPolicy.singleSocket
    THEN "Required single socket restriction not present"
    ELSE IF required.memAes256Xts /\ ~reportPolicy.memAes256Xts
    THEN "Found unauthorized memory encryption mode"
    ELSE IF required.raplDis /\ ~reportPolicy.raplDis
    THEN "Found unauthorized RAPL capability"
    ELSE IF required.ciphertextHidingDram /\ ~reportPolicy.ciphertextHidingDram
    THEN "Ciphertext hiding in DRAM isn't enforced"
    ELSE IF required.pageSwapDisabled /\ ~reportPolicy.pageSwapDisabled
    THEN "Page swap isn't disabled"
    ELSE "ok"

\* validatePolicy(reportPolicy, required): the start of the message it throws,
\* "ok" when it returns
validatePolicy(reportPolicy, required) ==
    IF comparePolicyVersions(required, reportPolicy) > 0
    THEN "Required ABI version is greater than report's ABI version"
    ELSE IF ~required.migrateMa /\ reportPolicy.migrateMa
    THEN "Found unauthorized migration agent capability"
    ELSE IF ~required.debug /\ reportPolicy.debug
    THEN "Found unauthorized debug capability"
    ELSE IF ~required.smt /\ reportPolicy.smt
    THEN "Found unauthorized symmetric multithreading (SMT) capability"
    ELSE IF ~required.cxlAllowed /\ reportPolicy.cxlAllowed
    THEN "Found unauthorized CXL capability"
    ELSE IF ~required.memAes256Xts /\ reportPolicy.memAes256Xts
    THEN "Found unauthorized memory encryption mode"
    ELSE IF required.singleSocket /\ ~reportPolicy.singleSocket
    THEN "Required single socket restriction not present"
    ELSE IF required.memAes256Xts /\ ~reportPolicy.memAes256Xts
    THEN "Found unauthorized memory encryption mode"
    ELSE IF required.raplDis /\ ~reportPolicy.raplDis
    THEN "Found unauthorized RAPL capability"
    ELSE IF required.ciphertextHidingDram /\ ~reportPolicy.ciphertextHidingDram
    THEN "Ciphertext hiding in DRAM isn't enforced"
    ELSE IF required.pageSwapDisabled /\ ~reportPolicy.pageSwapDisabled
    THEN "Page swap isn't disabled"
    ELSE "ok"

SnpPlatformInfo ==
    [smtEnabled : BOOLEAN, tsmeEnabled : BOOLEAN, eccEnabled : BOOLEAN,
     raplDisabled : BOOLEAN, ciphertextHidingDramEnabled : BOOLEAN,
     aliasCheckComplete : BOOLEAN, tioEnabled : BOOLEAN]

\* platformInfoFromInt(value) for a platform-info word
platformInfoFromInt(value) ==
    [smtEnabled |-> bit64(value, 0) = 1,
     tsmeEnabled |-> bit64(value, 1) = 1,
     eccEnabled |-> bit64(value, 2) = 1,
     raplDisabled |-> bit64(value, 3) = 1,
     ciphertextHidingDramEnabled |-> bit64(value, 4) = 1,
     aliasCheckComplete |-> bit64(value, 5) = 1,
     tioEnabled |-> bit64(value, 7) = 1]

\* variant: a missing TIO is not reported
validatePlatformInfo_NoTioCheck(reportInfo, required) ==
    IF reportInfo.smtEnabled /\ ~required.smtEnabled
    THEN "Unauthorized platform feature SMT enabled"
    ELSE IF ~reportInfo.eccEnabled /\ required.eccEnabled
    THEN "Required platform feature ECC not enabled"
    ELSE IF ~reportInfo.tsmeEnabled /\ required.tsmeEnabled
    THEN "Required platform feature TSME not enabled"
    ELSE IF ~reportInfo.raplDisabled /\ required.raplDisabled
    THEN "Required platform feature RAPL not disabled"
    ELSE IF ~reportInfo.ciphertextHidingDramEnabled /\ required.ciphertextHidingDramEnabled
    THEN "Required ciphertext hiding in DRAM not enforced"
    ELSE IF ~reportInfo.aliasCheckComplete /\ required.aliasCheckComplete
    THEN "Required memory alias check hasn't been completed"
    ELSE "ok"

\* validatePlatformInfo(reportInfo, required): the start of the message it
\* throws, "ok" when it returns
validatePlatformInfo(reportInfo, required) ==
    IF reportInfo.smtEnabled /\ ~required.smtEnabled
    THEN "Unauthorized platform feature SMT enabled"
    ELSE IF ~reportInfo.eccEnabled /\ required.eccEnabled
    THEN "Required platform feature ECC not enabled"
    ELSE IF ~reportInfo.tsmeEnabled /\ required.tsmeEnabled
    THEN "Required platform feature TSME not enabled"
    ELSE IF ~reportInfo.raplDisabled /\ required.raplDisabled
    THEN "Required platform feature RAPL not disabled"
    ELSE IF ~reportInfo.ciphertextHidingDramEnabled /\ required.ciphertextHidingDramEnabled
    THEN "Required ciphertext hiding in DRAM not enforced"
    ELSE IF ~reportInfo.aliasCheckComplete /\ required.aliasCheckComplete
    THEN "Required memory alias check hasn't been completed"
    ELSE IF ~reportInfo.tioEnabled /\ required.tioEnabled
    THEN "Required TIO not enabled"
    ELSE "ok"

\* policies with at most MaxFlags flags enabled
FlagSets == {flags \in SUBSET PolicyFlags : Cardinality(flags) <= MaxFlags}
AbiVersions == {<<0, 0>>, <<0, 1>>, <<1, 0>>}
Policies == {SnpPolicy(flags, abi[1], abi[2]) : flags \in FlagSets, abi \in AbiVersions}

IdlePol == [reportPolicy |-> SnpPolicy({}, 0, 0), required |-> SnpPolicy({}, 0, 0),
            result |-> "idle"]
IdlePlat == [reportInfo |-> platformInfoFromInt(<<0, 0, 0, 0, 0, 0, 0, 0>>),
             required |-> platformInfoFromInt(<<0, 0, 0, 0, 0, 0, 0, 0>>),
             result |-> "idle"]

(***************************************************************************)
(* sev/cert-chain.ts and sev/validation.ts: validateReport                 *)
(*                                                                         *)
(* An optional member of ValidationOptions is [defined, value].  A byte    *)
(* array is the sequence of its bytes.  A certificate extension is         *)
(* [present, value] with value the bytes of the extension.                 *)
(***************************************************************************)
Undefined(value) == [defined |-> FALSE, value |-> value]
Defined(value) == [defined |-> TRUE, value |-> value]

tcbFromInt(tcb) ==
    [ucodeSpl |-> tcb[8], snpSpl |-> tcb[7], teeSpl |-> tcb[2], blSpl |-> tcb[1]]

\* variant: the TCB is compared as one number, most significant sub-field first
tcbMeetsMinimum_AsOneNumber(tcb, minimum) ==
    \/ tcb.ucodeSpl > minimum.ucodeSpl
    \/ /\ tcb.ucodeSpl = minimum.ucodeSpl
       /\ \/ tcb.snpSpl > minimum.snpSpl
          \/ /\ tcb.snpSpl = minimum.snpSpl
             /\ \/ tcb.teeSpl > minimum.teeSpl
                \/ tcb.teeSpl = minimum.teeSpl /\ tcb.blSpl >= minimum.blSpl

\* tcbMeetsMinimum(tcb, minimum)
tcbMeetsMinimum(tcb, minimum) ==
    /\ tcb.blSpl >= minimum.blSpl
    /\ tcb.teeSpl >= minimum.teeSpl
    /\ tcb.snpSpl >= minimum.snpSpl
    /\ tcb.ucodeSpl >= minimum.ucodeSpl

\* uint8ArrayEqual(a, b)
uint8ArrayEqual(a, b) == Len(a) = Len(b) /\ \A i \in 1..Len(a) : a[i] = b[i]

\* the DER encoding of a non-negative INTEGER below 2^15: tag 2, length and
\* the big-endian content, with a leading zero byte when the top bit is set
DerInteger(n) ==
    IF n < 128 THEN <<2, 1, n>>
    ELSE IF n < 256 THEN <<2, 2, 0, n>>
    ELSE <<2, 2, n \div 256, n % 256>>

\* CertificateChain.decodeExtensionInteger(value): the number a DER INTEGER holds
decodeExtensionInteger(value) ==
    IF value[2] = 1 THEN value[3] ELSE value[3] * 256 + value[4]

Missing == [present |-> FALSE, value |-> <<>>]
Extension(value) == [present |-> TRUE, value |-> value]

\* variant: the microcode extension is not compared
validateVcekTcb_NoUcodeCheck(vcek, tcb) ==
    IF ~vcek.BL_SPL.present THEN "missing BL_SPL extension for VCEK certificate"
    ELSE IF decodeExtensionInteger(vcek.BL_SPL.value) # tcb.blSpl
    THEN "BL_SPL extension in VCEK certificate does not match tcb.blSpl"
    ELSE IF ~vcek.TEE_SPL.present THEN "missing TEE_SPL extension for VCEK certificate"
    ELSE IF decodeExtensionInteger(vcek.TEE_SPL.value) # tcb.teeSpl
    THEN "TEE_SPL extension in VCEK certificate does not match tcb.teeSpl"
    ELSE IF ~vcek.SNP_SPL.present THEN "missing SNP_SPL extension for VCEK certificate"
    ELSE IF decodeExtensionInteger(vcek.SNP_SPL.value) # tcb.snpSpl
    THEN "SNP_SPL extension in VCEK certificate does not match tcb.snpSpl"
    ELSE IF ~vcek.UCODE.present THEN "missing UCODE extension for VCEK certificate"
    ELSE "ok"

\* CertificateChain.validateVcekTcb(tcb) on the leaf certificate vcek
validateVcekTcb(vcek, tcb) ==
    IF ~vcek.BL_SPL.present THEN "missing BL_SPL extension for VCEK certificate"
    ELSE IF decodeExtensionInteger(vcek.BL_SPL.value) # tcb.blSpl
    THEN "BL_SPL extension in VCEK certificate does not match tcb.blSpl"
    ELSE IF ~vcek.TEE_SPL.present THEN "missing TEE_SPL extension for VCEK certificate"
    ELSE IF decodeExtensionInteger(vcek.TEE_SPL.value) # tcb.teeSpl
    THEN "TEE_SPL extension in VCEK certificate does not match tcb.teeSpl"
    ELSE IF ~vcek.SNP_SPL.present THEN "missing SNP_SPL extension for VCEK certificate"
    ELSE IF decodeExtensionInteger(vcek.SNP_SPL.value) # tcb.snpSpl
    THEN "SNP_SPL extension in VCEK certificate does not match tcb.snpSpl"
    ELSE IF ~vcek.UCODE.present THEN "missing UCODE extension for VCEK certificate"
    ELSE IF decodeExtensionInteger(vcek.UCODE.value) # tcb.ucodeSpl
    THEN "UCODE extension in VCEK certificate does not match tcb.ucodeSpl"
    ELSE "ok"

\* CertificateChain.validateVcekHwid(chipId) on the leaf certificate vcek
validateVcekHwid(vcek, chipId) ==
    IF ~vcek.HWID.present THEN "missing HWID extension for VCEK certificate"
    ELSE IF ~uint8ArrayEqual(vcek.HWID.value, chipId)
    THEN "HWID extension in VCEK certificate does not match chip_id"
    ELSE "ok"

\* the VCEK-specific CHIP_ID <-> HWID check of validateReport
chipIdCheck(report, vcek) ==
    IF report.signingKey = VcekReportSigner
    THEN IF report.maskChipKey /\ \E i \in 1..Len(report.chipId) : report.chipId[i] # 0
         THEN "maskChipKey is set but CHIP_ID is not zeroed"
         ELSE IF ~report.maskChipKey
         THEN validateVcekHwid(vcek, report.chipId)
         ELSE "ok"
    ELSE "ok"

\* one field equality check of validateReport
fieldCheck(name, actual, expected, length) ==
    IF ~expected.defined THEN "ok"
    ELSE IF Len(actual) # length THEN name \o " length is not the expected number of bytes"
    ELSE IF ~uint8ArrayEqual(actual, expected.value) THEN name \o " mismatch"
    ELSE "ok"

\* the VMPL check of validateReport
vmplCheck(report, options) ==
    IF options.vmpl.defined
    THEN IF ~(0 <= report.vmpl /\ report.vmpl <= 3)
         THEN "VMPL is not in valid range 0-3"
         ELSE IF report.vmpl # options.vmpl.value
         THEN "VMPL mismatch"
         ELSE "ok"
    ELSE "ok"

\* the first of the messages that is not "ok": the statement that throws
RECURSIVE firstFailure(_)
firstFailure(results) ==
    IF results = <<>> THEN "ok"
    ELSE IF Head(results) # "ok" THEN Head(results)
    ELSE firstFailure(Tail(results))

\* the checks of validateReport on the firmware minimums
minimumChecks(report, options) ==
    firstFailure(<<
        IF options.minimumGuestSvn.defined /\ report.guestSvn < options.minimumGuestSvn.value
        THEN "Guest SVN is less than minimum required" ELSE "ok",
        IF options.minimumBuild.defined /\ report.currentBuild < options.minimumBuild.value
        THEN "Current SNP firmware build number is less than minimum required" ELSE "ok",
        IF options.minimumBuild.defined /\ report.committedBuild < options.minimumBuild.value
        THEN "Committed SNP firmware build number is less than minimum required" ELSE "ok",
        IF options.minimumVersion.defined
           /\ report.currentMajor * 256 + report.currentMinor < options.minimumVersion.value
        THEN "Current SNP firmware version is less than minimum required" ELSE "ok",
        IF options.minimumVersion.defined
           /\ report.committedMajor * 256 + report.committedMinor < options.minimumVersion.value
        THEN "Committed SNP firmware version is less than minimum required" ELSE "ok",
        IF options.minimumTcb.defined
           /\ ~tcbMeetsMinimum(tcbFromInt(report.currentTcb), options.minimumTcb.value)
        THEN "Current TCB does not meet minimum requirements" ELSE "ok",
        IF options.minimumTcb.defined
           /\ ~tcbMeetsMinimum(tcbFromInt(report.committedTcb), options.minimumTcb.value)
        THEN "Committed TCB does not meet minimum requirements" ELSE "ok",
        IF options.minimumTcb.defined
           /\ ~tcbMeetsMinimum(tcbFromInt(report.reportedTcb), options.minimumTcb.value)
        THEN "Reported TCB does not meet minimum requirements" ELSE "ok" >>)

\* variant: permitted provisional firmware passes without the equality checks
provisionalChecks_ProvisionalPermitted(report, options) ==
    IF options.permitProvisionalFirmware THEN "ok"
    ELSE firstFailure(<<
        IF report.committedBuild # report.currentBuild
        THEN "Committed build does not match current build" ELSE "ok",
        IF report.committedMinor # report.currentMinor
        THEN "Committed minor version does not match current minor version" ELSE "ok",
        IF report.committedMajor # report.currentMajor
        THEN "Committed major version does not match current major version" ELSE "ok",
        IF report.committedTcb # report.currentTcb
        THEN "Committed TCB does not match current TCB" ELSE "ok" >>)

\* the provisional-firmware checks of validateReport
provisionalChecks(report, options) ==
    firstFailure(<<
        IF options.permitProvisionalFirmware
        THEN "Provisional firmware is not supported" ELSE "ok",
        IF report.committedBuild # report.currentBuild
        THEN "Committed build does not match current build" ELSE "ok",
        IF report.committedMinor # report.currentMinor
        THEN "Committed minor version does not match current minor version" ELSE "ok",
        IF report.committedMajor # report.currentMajor
        THEN "Committed major version does not match current major version" ELSE "ok",
        IF report.committedTcb # report.currentTcb
        THEN "Committed TCB does not match current TCB" ELSE "ok" >>)

\* validateReport(report, chain, options) with vcek the chain's leaf
\* certificate: the start of the message it throws, "ok" when it returns
validateReport(report, vcek, options) ==
    firstFailure(<<
        IF options.guestPolicy.defined
        THEN validatePolicy(report.policyParsed, options.guestPolicy.value) ELSE "ok",
        minimumChecks(report, options),
        validateVcekTcb(vcek, tcbFromInt(report.reportedTcb)),
        IF options.minimumLaunchTcb.defined
           /\ ~tcbMeetsMinimum(tcbFromInt(report.launchTcb), options.minimumLaunchTcb.value)
        THEN "Launch TCB does not meet minimum requirements" ELSE "ok",
        fieldCheck("Report data", report.reportData, options.reportData, 64),
        fieldCheck("Host data", report.hostData, options.hostData, 32),
        fieldCheck("Measurement", report.measurement, options.measurement, 48),
        fieldCheck("Chip ID", report.chipId, options.chipId, 64),
        fieldCheck("Image ID", report.imageId, options.imageId, 16),
        fieldCheck("Family ID", report.familyId, options.familyId, 16),
        fieldCheck("Report ID", report.reportId, options.reportId, 32),
        fieldCheck("Report ID MA", report.reportIdMa, options.reportIdMa, 32),
        chipIdCheck(report, vcek),
        IF options.platformInfo.defined
        THEN validatePlatformInfo(report.platformInfoParsed, options.platformInfo.value)
        ELSE "ok",
        vmplCheck(report, options),
        provisionalChecks(report, options),
        IF options.requireAuthorKey \/ options.requireIdBlock
        THEN "ID-block and author key requirements are not supported yet" ELSE "ok" >>)

\* defaultValidationOptions
defaultValidationOptions ==
    [guestPolicy |-> Defined(SnpPolicy({"smt"}, 0, 0)),
     minimumGuestSvn |-> Defined(0),
     minimumBuild |-> Defined(21),
     minimumVersion |-> Defined(1 * 256 + 55),
     minimumTcb |-> Defined([blSpl |-> 7, teeSpl |-> 0, snpSpl |-> 14, ucodeSpl |-> 72]),
     minimumLaunchTcb |-> Defined([blSpl |-> 7, teeSpl |-> 0, snpSpl |-> 14, ucodeSpl |-> 72]),
     permitProvisionalFirmware |-> FALSE,
     reportData |-> Undefined(<<>>),
     hostData |-> Undefined(<<>>),
     imageId |-> Undefined(<<>>),
     familyId |-> Undefined(<<>>),
     reportId |-> Undefined(<<>>),
     reportIdMa |-> Undefined(<<>>),
     measurement |-> Undefined(<<>>),
     chipId |-> Undefined(<<>>),
     platformInfo |-> Defined([smtEnabled |-> TRUE, tsmeEnabled |-> FALSE,
                               eccEnabled |-> FALSE, raplDisabled |-> FALSE,
                               ciphertextHidingDramEnabled |-> FALSE,
                               aliasCheckComplete |-> FALSE, tioEnabled |-> FALSE]),
     vmpl |-> Undefined(0),
     requireAuthorKey |-> FALSE,
     requireIdBlock |-> FALSE]

(***************************************************************************)
(* validateReport applied to a report, a leaf certificate and options that *)
(* differ in at most MaxDeviations places from a report that passes the    *)
(* default options                                                         *)
(***************************************************************************)
\* n bytes, all zero but the first
Bytes(n, first) == [i \in 1..n |-> IF i = 1 THEN first ELSE 0]

\* a TCB word with the given sub-fields
TcbWord(blSpl, teeSpl, snpSpl, ucodeSpl) == <<blSpl, teeSpl, 0, 0, 0, 0, snpSpl, ucodeSpl>>

DeviationNames ==
    { "report.vmpl=1", "report.vmpl=3", "report.vmpl=4",
      "report.maskChipKey", "report.chipId=0", "report.chipId=B",
      "report.reportedTcb.bl=6", "report.reportedTcb.tee=1",
      "report.reportedTcb.snp=200", "report.reportedTcb.ucode=73",
      "report.currentTcb.ucode=73", "report.launchTcb.bl=6",
      "report.currentBuild=22", "report.committedMinor=54", "report.committedMajor=2",
      "report.policy.debug", "report.platformInfo.ecc", "report.measurement=B",
      "vcek.BL_SPL missing", "vcek.TEE_SPL missing", "vcek.SNP_SPL missing",
      "vcek.UCODE missing", "vcek.HWID missing",
      "vcek.BL_SPL=6", "vcek.BL_SPL=8", "vcek.TEE_SPL=1", "vcek.SNP_SPL=200",
      "vcek.SNP_SPL=15", "vcek.UCODE=73", "vcek.HWID=0", "vcek.HWID=B",
      "options.guestPolicy undefined", "options.guestPolicy.debug",
      "options.minimumGuestSvn undefined", "options.minimumBuild undefined",
      "options.minimumVersion undefined", "options.minimumTcb undefined",
      "options.minimumLaunchTcb undefined", "options.platformInfo undefined",
      "options.platformInfo.ecc", "options.vmpl=0", "options.vmpl=3",
      "options.permitProvisionalFirmware", "options.requireAuthorKey",
      "options.requireIdBlock", "options.chipId=A", "options.measurement=A" }

\* sets of at most n deviations
RECURSIVE DeviationSets(_)
DeviationSets(n) ==
    IF n = 0 THEN {{}}
    ELSE LET smaller == DeviationSets(n - 1)
         IN  smaller \cup {D \cup {d} : D \in smaller, d \in DeviationNames}

\* the report, leaf certificate and options that deviate by D
Scenario(D) ==
    LET pick(name, then, else) == IF name \in D THEN then ELSE else
        reportedTcb ==
            TcbWord(pick("report.reportedTcb.bl=6", 6, 7),
                    pick("report.reportedTcb.tee=1", 1, 0),
                    pick("report.reportedTcb.snp=200", 200, 14),
                    pick("report.reportedTcb.ucode=73", 73, 72))
        currentTcb == TcbWord(7, 0, 14, pick("report.currentTcb.ucode=73", 73, 72))
    IN  [report |->
            [policyParsed |-> SnpPolicy(pick("report.policy.debug", {"smt", "debug"}, {"smt"}), 1, 55),
             guestSvn |-> 0,
             vmpl |-> pick("report.vmpl=4", 4, pick("report.vmpl=3", 3, pick("report.vmpl=1", 1, 0))),
             currentTcb |-> currentTcb,
             committedTcb |-> TcbWord(7, 0, 14, 72),
             reportedTcb |-> reportedTcb,
             launchTcb |-> TcbWord(pick("report.launchTcb.bl=6", 6, 7), 0, 14, 72),
             platformInfoParsed |->
                platformInfoFromInt(<<pick("report.platformInfo.ecc", 5, 1), 0, 0, 0, 0, 0, 0, 0>>),
             signingKey |-> VcekReportSigner,
             maskChipKey |-> "report.maskChipKey" \in D,
             reportData |-> Bytes(64, 0),
             measurement |-> Bytes(48, pick("report.measurement=B", 11, 10)),
             hostData |-> Bytes(32, 0),
             imageId |-> Bytes(16, 0),
             familyId |-> Bytes(16, 0),
             reportId |-> Bytes(32, 0),
             reportIdMa |-> Bytes(32, 0),
             chipId |-> Bytes(64, pick("report.chipId=0", 0, pick("report.chipId=B", 11, 10))),
             currentBuild |-> pick("report.currentBuild=22", 22, 21),
             currentMinor |-> 55,
             currentMajor |-> 1,
             committedBuild |-> 21,
             committedMinor |-> pick("report.committedMinor=54", 54, 55),
             committedMajor |-> pick("report.committedMajor=2", 2, 1)],
         vcek |->
            [BL_SPL |-> pick("vcek.BL_SPL missing", Missing,
                          Extension(DerInteger(pick("vcek.BL_SPL=8", 8, pick("vcek.BL_SPL=6", 6, 7))))),
             TEE_SPL |-> pick("vcek.TEE_SPL missing", Missing,
                          Extension(DerInteger(pick("vcek.TEE_SPL=1", 1, 0)))),
             SNP_SPL |-> pick("vcek.SNP_SPL missing", Missing,
                          Extension(DerInteger(pick("vcek.SNP_SPL=200", 200,
                                                    pick("vcek.SNP_SPL=15", 15, 14))))),
             UCODE |-> pick("vcek.UCODE missing", Missing,
                          Extension(DerInteger(pick("vcek.UCODE=73", 73, 72)))),
             HWID |-> pick("vcek.HWID missing", Missing,
                          Extension(Bytes(64, pick("vcek.HWID=0", 0, pick("vcek.HWID=B", 11, 10)))))],
         options |->
            [defaultValidationOptions EXCEPT
                !.guestPolicy =
                    pick("options.guestPolicy undefined", Undefined(@.value),
                         pick("options.guestPolicy.debug",
                              Defined(SnpPolicy({"smt", "debug"}, 0, 0)), @)),
                !.minimumGuestSvn = pick("options.minimumGuestSvn undefined", Undefined(0), @),
                !.minimumBuild = pick("options.minimumBuild undefined", Undefined(0), @),
                !.minimumVersion = pick("options.minimumVersion undefined", Undefined(0), @),
                !.minimumTcb = pick("options.minimumTcb undefined", Undefined(@.value), @),
                !.minimumLaunchTcb = pick("options.minimumLaunchTcb undefined", Undefined(@.value), @),
                !.platformInfo =
                    pick("options.platformInfo undefined", Undefined(@.value),
                         pick("options.platformInfo.ecc",
                              Defined([@.value EXCEPT !.eccEnabled = TRUE]), @)),
                !.vmpl = pick("options.vmpl=3", Defined(3), pick("options.vmpl=0", Defined(0), @)),
                !.permitProvisionalFirmware = "options.permitProvisionalFirmware" \in D,
                !.requireAuthorKey = "options.requireAuthorKey" \in D,
                !.requireIdBlock = "options.requireIdBlock" \in D,
                !.chipId = pick("options.chipId=A", Defined(Bytes(64, 10)), @),
                !.measurement = pick("options.measurement=A", Defined(Bytes(48, 10)), @)]]

IdleVal == [deviations |-> {}, report |-> Scenario({}).report, vcek |-> Scenario({}).vcek,
            options |-> defaultValidationOptions, result |-> "idle"]

(***************************************************************************)
(* sev/cert-chain.ts: CertificateChain.fromReport and the leaf-certificate *)
(* cache in localStorage                                                   *)
(***************************************************************************)
\* callers of CertificateChain.fromReport that may overlap
Callers == {"first", "second"}

\* characters of a stored string: the 64 digits of the base64 alphabet by
\* their value, the padding character '=' and a character outside the alphabet
PadChar == 64
BadChar == 65

\* btoa(String.fromCharCode(...bytes))
RECURSIVE btoa(_)
btoa(bytes) ==
    IF Len(bytes) = 0 THEN <<>>
    ELSE IF Len(bytes) = 1 THEN
        <<bytes[1] \div 4, (bytes[1] % 4) * 16, PadChar, PadChar>>
    ELSE IF Len(bytes) = 2 THEN
        <<bytes[1] \div 4, (bytes[1] % 4) * 16 + bytes[2] \div 16,
          (bytes[2] % 16) * 4, PadChar>>
    ELSE
        <<bytes[1] \div 4, (bytes[1] % 4) * 16 + bytes[2] \div 16,
          (bytes[2] % 16) * 4 + bytes[3] \div 64, bytes[3] % 64>>
        \o btoa(SubSeq(bytes, 4, Len(bytes)))

\* the digits of a base64 string decoded to bytes, leftover bits discarded
RECURSIVE decodeDigits(_)
decodeDigits(digits) ==
    IF Len(digits) < 2 THEN <<>>
    ELSE IF Len(digits) = 2 THEN
        <<digits[1] * 4 + digits[2] \div 16>>
    ELSE IF Len(digits) = 3 THEN
        <<digits[1] * 4 + digits[2] \div 16, (digits[2] % 16) * 16 + digits[3] \div 4>>
    ELSE
        <<digits[1] * 4 + digits[2] \div 16, (digits[2] % 16) * 16 + digits[3] \div 4,
          (digits[3] % 4) * 64 + digits[4]>>
        \o decodeDigits(SubSeq(digits, 5, Len(digits)))

\* atob(text): up to two padding characters are dropped from a text whose
\* length is a multiple of four; it throws when a character outside the
\* alphabet is left or the length leaves one digit over
atob(text) ==
    LET n == Len(text)
        digits ==
            IF n > 0 /\ n % 4 = 0 /\ text[n] = PadChar
            THEN IF text[n - 1] = PadChar THEN SubSeq(text, 1, n - 2)
                 ELSE SubSeq(text, 1, n - 1)
            ELSE text
    IN  IF Len(digits) % 4 = 1 \/ \E i \in 1..Len(digits) : digits[i] >= PadChar
        THEN [ok |-> FALSE, bytes |-> <<>>]
        ELSE [ok |-> TRUE, bytes |-> decodeDigits(digits)]

\* bytesToHex(bytes) and value.toString(16).padStart(16, '0') of a 64-bit word
RECURSIVE bytesToHex(_)
bytesToHex(bytes) ==
    IF bytes = <<>> THEN <<>>
    ELSE <<Head(bytes) \div 16, Head(bytes) % 16>> \o bytesToHex(Tail(bytes))

wordToHex(word) == bytesToHex([k \in 1..8 |-> word[9 - k]])

\* `VCEK_${report.productName}_${chipHex}_${tcbHex}`
cacheKey(report) ==
    <<"VCEK", report.productName, bytesToHex(report.chipId), wordToHex(report.reportedTcb)>>

\* buildVCEKUrl(productName, chipId, reportedTcb)
buildVCEKUrl(productName, chipId, reportedTcb) ==
    LET tcb == tcbFromInt(reportedTcb)
    IN  <<"https://kds-proxy.tinfoil.sh/vcek/v1", productName, bytesToHex(chipId),
          tcb.blSpl, tcb.teeSpl, tcb.snpSpl, tcb.ucodeSpl>>

\* X509Certificate.parse(der): DER of a certificate opens with the SEQUENCE
\* tag 0x30 and a length; anything else makes parse throw
SequenceTag == 48
IsCertificate(der) == Len(der) >= 2 /\ der[1] = SequenceTag
NoCertificate == [der |-> <<>>]
X509Certificate(der) == [der |-> der]

\* localStorage.getItem: null for an absent key
NoItem == [present |-> FALSE, value |-> <<>>]
Item(text) == [present |-> TRUE, value |-> text]

\* `if (cached)`: null and the empty string are falsy
Truthy(item) == item.present /\ item.value # <<>>

\* the reports handed to fromReport: two chips of the supported product and
\* one of another product, at one reported TCB
ChipIds == {Bytes(64, 1), Bytes(64, 2)}
ChainReports ==
    [ productName : {"Genoa", "Milan"},
      signingKey : {VcekReportSigner, VlekReportSigner},
      chipId : ChipIds,
      reportedTcb : {TcbWord(7, 0, 14, 72)} ]
CacheKeys == {cacheKey(r) : r \in ChainReports}

\* the leaf certificate the key-distribution service holds for a chip, what a
\* proxy answers instead of it, and a certificate cut short when it was stored
VcekDer(chipId) == <<SequenceTag, 3, chipId[1]>>
ErrorPage == <<60, 33>>
TruncatedDer == <<SequenceTag>>

\* what localStorage may hold for a key before a call
StoredItems(report) ==
    { NoItem, Item(<<>>), Item(<<BadChar>>), Item(<<12>>),
      Item(btoa(VcekDer(report.chipId))), Item(btoa(TruncatedDer)) }

\* the answers of the key-distribution proxy to a request
Responses(report) ==
    { [ok |-> TRUE, body |-> VcekDer(report.chipId)],
      [ok |-> TRUE, body |-> ErrorPage],
      [ok |-> FALSE, body |-> <<>>] }

IdleChain ==
    [ pc |-> "idle", report |-> CHOOSE r \in ChainReports : TRUE, read |-> FALSE,
      cached |-> NoItem,
      evicted |-> FALSE, url |-> <<>>, response |-> [ok |-> FALSE, body |-> <<>>],
      vcek |-> NoCertificate, error |-> "" ]

(***************************************************************************)
(* Verification orchestrator: Verifier.verify (client.ts) and              *)
(* SecureClient.verify (its copy with the pinned-measurement mode)         *)
(***************************************************************************)
StepNames == {"fetchDigest", "verifyCode", "verifyEnclave", "compareMeasurements"}

Pending == [status |-> "pending", error |-> ""]
Success == [status |-> "success", error |-> ""]
Failed(message) == [status |-> "failed", error |-> message]

\* the steps object a verify() call starts with
PendingSteps == [s \in StepNames |-> Pending]

\* options.measurement absent (always so for Verifier)
NoMeasurement == <<"undefined">>
\* options.measurement.snp_measurement: '' or a register
PinnedMeasurements == {NoMeasurement, <<>>, <<"a">>}

ConfiguredHost == "enclave.host"
RouterAddresses == {"router-1.host", "router-2.host"}

PinnedNoDigest == <<"pinned_no_digest">>

\* what the release page and the attestation endpoint serve during a run:
\* a lower-case digest, and bundles that differ in the fields the pipeline's
\* outcome depends on (their subject digest in lower or in upper case)
ReleaseDigests == {[i \in 1..DigestLen |-> "a"]}
ReleaseBundles ==
    [ envelopeValid : {TRUE},
      issuer : {GITHUB_OIDC_ISSUER},
      repo : {DEFAULT_CONFIG_REPO},
      workflowRef : {<<"refs", "tags", "v1">>, <<"refs", "heads", "main">>},
      payloadType : {InTotoPayloadType},
      subjectDigest : {[i \in 1..DigestLen |-> "a"], [i \in 1..DigestLen |-> "A"]},
      predicateType : PredicateType,
      predicate : {[present |-> TRUE, measurement |-> <<"a">>,
                    snp_measurement |-> <<"b">>]} ]

\* a document is an object: `object` is its identity, the number of the
\* invocation whose object literal created it
NoDoc == [defined |-> FALSE]

VARIABLES
    impl,       \* which copy of the provenance verifier the build links
    measurement,\* this.measurement (pinned mode), NoMeasurement when absent
    enclave,    \* this.enclave, "" when the constructor got no host
    doc,        \* this.verificationDocument, NoDoc while undefined
    calls,      \* number of verify() invocations started so far
    pc,         \* per invocation: the await it is suspended at, or how it ended
    steps,      \* per invocation: its local steps object
    amd,        \* per invocation: amdVerification.measurement
    digest,     \* per invocation: digest
    code,       \* per invocation: codeMeasurements
    hostRead,   \* per invocation: this.enclave as read for enclaveHost
    thrown,     \* per invocation: message of the error verify() rejected with
    callNo,     \* per invocation: its number in the order verify() was entered
    ops,        \* per invocation: the requests it has sent, in order
    cmp,        \* an application of compareMeasurements
    prov,       \* an application of verifyAttestation (sigstore)
    rep,        \* an application of new Report
    pol,        \* an application of validatePolicy
    plat,       \* an application of validatePlatformInfo
    val,        \* an application of validateReport
    localStorage,\* the browser's localStorage: cache key |-> stored string
    requests,   \* the requests sent to the key-distribution proxy so far
    chain,      \* per caller: its invocation of CertificateChain.fromReport
    vch,        \* an application of CertificateChain.verifyChain
    sig,        \* an application of verifyReportSignature
    att,        \* an application of verifySevReport
    sc          \* a SecureClient and the calls made on it

vars == <<impl, measurement, enclave, doc, calls, pc, steps, amd, digest, code,
          hostRead, thrown, callNo, ops, cmp, prov, rep, pol, plat, val,
          localStorage, requests, chain, vch, sig, att, sc>>

config == <<impl, measurement>>
sev == <<rep, pol, plat, val>>
kds == <<localStorage, requests, chain>>
aux == <<vch, sig, att, sc>>
pure == <<cmp, prov, sev, kds, aux>>
orchestrator == <<impl, measurement, enclave, doc, calls, pc, steps, amd, digest,
                  code, hostRead, thrown, callNo, ops>>

\* this.repo / this.configRepo: '' in pinned mode
thisRepo == IF measurement # NoMeasurement THEN "" ELSE DEFAULT_CONFIG_REPO

\* this.repo || 'pinned_no_repo'
docConfigRepo == IF thisRepo = "" THEN "pinned_no_repo" ELSE thisRepo

\* the document saveFailedVerificationDocument(steps) stores
FailedDocument(st, encl, id) ==
    [ defined |-> TRUE,
      object |-> id,
      configRepo |-> docConfigRepo,
      enclaveHost |-> encl,
      releaseDigest |-> <<>>,
      codeMeasurement |-> EmptyMeasurement,
      enclaveMeasurement |-> EmptyMeasurement,
      codeFingerprint |-> <<>>,
      enclaveFingerprint |-> <<>>,
      selectedRouterEndpoint |-> encl,
      securityVerified |-> FALSE,
      steps |-> st ]

\* "Build successful verification document"
SuccessDocument(p, encl) ==
    [ defined |-> TRUE,
      object |-> callNo[p],
      configRepo |-> docConfigRepo,
      enclaveHost |-> hostRead[p],
      releaseDigest |-> digest[p],
      codeMeasurement |-> code[p],
      enclaveMeasurement |-> amd[p],
      codeFingerprint |-> measurementFingerprint(code[p]),
      enclaveFingerprint |-> measurementFingerprint(amd[p]),
      selectedRouterEndpoint |-> encl,
      securityVerified |-> TRUE,
      steps |-> steps[p] ]

\* variant: the outer catch only rethrows
OuterCatch_NeverSaves(p) == doc

\* the outer catch of verify(): "if we didn't already save a failed document"
OuterCatch(p) ==
    IF ~doc.defined THEN FailedDocument(steps[p], enclave, callNo[p]) ELSE doc

IdleCmp == [a |-> EmptyMeasurement, b |-> EmptyMeasurement, result |-> "idle"]
IdleProv == [bundle |-> <<>>, digest |-> <<>>, repo |-> "", result |-> Rejected("idle")]

IdleSev ==
    /\ rep = IdleRep
    /\ pol = IdlePol
    /\ plat = IdlePlat
    /\ val = IdleVal

IdleKds ==
    /\ localStorage = [defined |-> FALSE, items |-> [k \in CacheKeys |-> NoItem]]
    /\ requests = <<>>
    /\ chain = [c \in Callers |-> IdleChain]

\* no signature verification under way
NoEncoding == [r |-> <<>>, s |-> <<>>, signature |-> <<>>]
IdleSig == [copy |-> "der", data |-> [length |-> 0, bytes |-> <<>>], pc |-> "idle",
            report |-> ReportThrows(Message("idle"), 0), encoded |-> NoEncoding,
            invoked |-> FALSE, result |-> "idle", error |-> Message("")]
NoCert == [key |-> "", signedBy |-> "", formatOk |-> FALSE, validNow |-> FALSE]
IdleVch == [ark |-> NoCert, ask |-> NoCert, vcek |-> NoCert, pc |-> "idle",
            result |-> "idle", error |-> Message("")]
NoResponse == [defined |-> FALSE, measurement |-> [type |-> "", registers |-> <<>>],
               tlsPublicKeyFingerprint |-> <<>>, hpkePublicKey |-> <<>>]
IdleAtt == [format |-> "", copy |-> "der", base64Ok |-> FALSE, gzipOk |-> FALSE,
            data |-> [length |-> 0, bytes |-> <<>>], deviations |-> {}, leaf |-> "",
            certs |-> [ark |-> NoCert, ask |-> NoCert, vcek |-> NoCert],
            pc |-> "idle", log |-> <<>>, key |-> "", isValid |-> "", error |-> Message(""),
            response |-> NoResponse]
\* a SecureClient as its constructor leaves it, no call made on it yet
MaxClientCalls == 3
ClientCalls == 1..MaxClientCalls
NoClientCall == [kind |-> "", pc |-> "idle", result |-> "", error |-> "", sent |-> FALSE]
IdleSc == [enclaveURL |-> FALSE, initPromise |-> "null", initPc |-> "", initError |-> "",
           inits |-> 0, verifyCalls |-> 0, transports |-> 0, fetch |-> "null",
           verificationDocument |-> "null", sent |-> 0,
           call |-> [c \in ClientCalls |-> NoClientCall]]
IdleAux ==
    /\ vch = IdleVch
    /\ sig = IdleSig
    /\ att = IdleAtt
    /\ sc = IdleSc

InitLocals ==
    /\ pc = [p \in Procs |-> "idle"]
    /\ steps = [p \in Procs |-> PendingSteps]
    /\ amd = [p \in Procs |-> EmptyMeasurement]
    /\ digest = [p \in Procs |-> <<>>]
    /\ code = [p \in Procs |-> EmptyMeasurement]
    /\ hostRead = [p \in Procs |-> ""]
    /\ thrown = [p \in Procs |-> ""]
    /\ callNo = [p \in Procs |-> 0]
    /\ ops = [p \in Procs |-> <<>>]

\* the state after the constructor
Init ==
    /\ impl \in Impls
    /\ measurement \in PinnedMeasurements
    \* only SecureClient, which links the verifyArtifact copy, takes a measurement
    /\ (measurement # NoMeasurement => impl = ImplArtifact)
    /\ enclave \in {"", ConfiguredHost}
    /\ doc = NoDoc
    /\ calls = 0
    /\ InitLocals
    /\ cmp = IdleCmp
    /\ prov = IdleProv
    /\ IdleSev
    /\ IdleKds
    /\ IdleAux

\* the locals of an invocation go out of scope when it ends
ClearLocals(p) ==
    /\ amd' = [amd EXCEPT ![p] = EmptyMeasurement]
    /\ digest' = [digest EXCEPT ![p] = <<>>]
    /\ code' = [code EXCEPT ![p] = EmptyMeasurement]
    /\ hostRead' = [hostRead EXCEPT ![p] = ""]

\* variant: the inner catch leaves saving the document to the outer catch
FailStep_OuterCatchSaves(p, st, step, message) ==
    /\ steps' = [steps EXCEPT ![p] = [st EXCEPT ![step] = Failed(message)]]
    /\ doc' = IF ~doc.defined
              THEN FailedDocument(steps'[p], enclave, callNo[p])
              ELSE doc
    /\ thrown' = [thrown EXCEPT ![p] = message]
    /\ pc' = [pc EXCEPT ![p] = "threw"]
    /\ ClearLocals(p)

\* variant: the inner catch swallows the error and verify() returns
FailStep_Swallowed(p, st, step, message) ==
    /\ steps' = [steps EXCEPT ![p] = [st EXCEPT ![step] = Failed(message)]]
    /\ doc' = FailedDocument(steps'[p], enclave, callNo[p])
    /\ thrown' = [thrown EXCEPT ![p] = message]
    /\ pc' = [pc EXCEPT ![p] = "returned"]
    /\ ClearLocals(p)

\* a step's inner catch: record the failure, save the failed document, rethrow
\* (the outer catch then finds the document defined and only rethrows)
FailStep(p, st, step, message) ==
    /\ steps' = [steps EXCEPT ![p] = [st EXCEPT ![step] = Failed(message)]]
    /\ doc' = FailedDocument(steps'[p], enclave, callNo[p])
    /\ thrown' = [thrown EXCEPT ![p] = message]
    /\ pc' = [pc EXCEPT ![p] = "threw"]
    /\ ClearLocals(p)

Finished == {"idle", "returned", "threw"}

\* a request an operation sends out of the process, and how it settled
Request(op, url, ok) == [op |-> op, url |-> url, ok |-> ok]

\* invocation p sends the requests sent, one after the other; ops is a
\* history variable, which the actions update only when asked to record
Issue(p, sent, recorded) == ops' = IF recorded THEN [ops EXCEPT ![p] = @ \o sent] ELSE ops

\* getRouterAddress(): one request for the list of routers
RouterListUrl == <<"https://atc.tinfoil.sh/routers?platform=snp">>

\* fetchAttestation(host): one request to the enclave's attestation endpoint
AttestationUrl(host) == <<"https://", host, "/.well-known/tinfoil-attestation">>

\* CertificateChain.fromReport during verifyAmdAttestation(doc): no request for
\* a document that fails before it or when the cache serves the certificate,
\* else one request to the key-distribution proxy
LeafOutcomes == {"notFetched", "fetched", "fetchFailed"}
fromReportRequests(d, leaf) ==
    LET url == buildVCEKUrl("Genoa", Bytes(64, 1), TcbWord(7, 0, 14, 72))
    IN  IF d.format \notin {SevGuestV1, SevGuestV2} \/ leaf = "notFetched" THEN <<>>
        ELSE <<Request("fetchVCEK", url, leaf = "fetched")>>

\* how fetchLatestDigest(repo) may go: the release request fails, the release
\* body holds the digest, or the tinfoil.hash file is requested as well
DigestOutcomes == {"releaseFailed", "inBody", "hashFile", "hashFileFailed"}

\* variant: the tinfoil.hash file is requested after a failed release request
fetchLatestDigestRequests_FallbackOnFailure(repo, outcome) ==
    LET url == <<"https://api-github-proxy.tinfoil.sh/repos", repo, "releases/latest">>
        digestUrl == <<"https://github-proxy.tinfoil.sh", repo, "releases/download",
                       "tinfoil.hash">>
    IN  IF outcome = "releaseFailed"
        THEN <<Request("fetchLatestDigest", url, FALSE),
               Request("fetchLatestDigest", digestUrl, TRUE)>>
        ELSE IF outcome = "inBody" THEN <<Request("fetchLatestDigest", url, TRUE)>>
        ELSE <<Request("fetchLatestDigest", url, TRUE),
               Request("fetchLatestDigest", digestUrl, outcome = "hashFile")>>

\* the requests of fetchLatestDigest(repo)
fetchLatestDigestRequests(repo, outcome) ==
    LET url == <<"https://api-github-proxy.tinfoil.sh/repos", repo, "releases/latest">>
        digestUrl == <<"https://github-proxy.tinfoil.sh", repo, "releases/download",
                       "tinfoil.hash">>
    IN  IF outcome = "releaseFailed" THEN <<Request("fetchLatestDigest", url, FALSE)>>
        ELSE IF outcome = "inBody" THEN <<Request("fetchLatestDigest", url, TRUE)>>
        ELSE <<Request("fetchLatestDigest", url, TRUE),
               Request("fetchLatestDigest", digestUrl, outcome = "hashFile")>>

\* fetchAttestationBundle(repo, digest): one request
BundleUrl(repo, d) == <<"https://api-github-proxy.tinfoil.sh/repos", repo, "attestations", d>>

\* an invocation is tracked in the first slot that holds no running invocation
FirstFreeSlot(p) ==
    /\ pc[p] \in Finished
    /\ (p = "callB" => pc["callA"] \notin Finished)

\* verify() is entered and runs to its first await
Enter(p, limit, recorded) ==
    /\ FirstFreeSlot(p)
    /\ calls < limit
    /\ calls' = calls + 1
    /\ callNo' = [callNo EXCEPT ![p] = calls + 1]
    /\ steps' = [steps EXCEPT ![p] = PendingSteps]
    /\ thrown' = [thrown EXCEPT ![p] = ""]
    /\ ops' = IF recorded THEN [ops EXCEPT ![p] = <<>>] ELSE ops
    /\ pc' = [pc EXCEPT ![p] = IF enclave = "" THEN "getRouterAddress" ELSE "verifyEnclave"]
    /\ UNCHANGED <<config, enclave, doc, amd, digest, code, hostRead, pure>>

\* await getRouterAddress() settles
RouterSettles(p, recorded) ==
    /\ pc[p] = "getRouterAddress"
    /\ \/ \E addr \in RouterAddresses :
            /\ enclave' = addr
            /\ pc' = [pc EXCEPT ![p] = "verifyEnclave"]
            /\ Issue(p, <<Request("getRouterAddress", RouterListUrl, TRUE)>>, recorded)
            /\ UNCHANGED <<doc, thrown>>
       \/ \E message \in {"Failed to fetch routers"} :
            /\ Issue(p, <<Request("getRouterAddress", RouterListUrl, FALSE)>>, recorded)
            /\ doc' = OuterCatch(p)
            /\ thrown' = [thrown EXCEPT ![p] = message]
            /\ pc' = [pc EXCEPT ![p] = "threw"]
            /\ UNCHANGED enclave
    /\ UNCHANGED <<config, calls, callNo, steps, amd, digest, code, hostRead, pure>>

\* variant: the pinned branch does not mark the two skipped steps
PinnedBranch_StepsLeftPending(p, st, m) ==
    IF measurement = <<>>
    THEN FailStep(p, st, "compareMeasurements",
                  "snp_measurement not found in provided measurement")
    ELSE IF m.registers[1] # measurement
    THEN FailStep(p, st, "compareMeasurements", "SNP measurement mismatch")
    ELSE /\ steps' = [steps EXCEPT ![p] = [st EXCEPT !["compareMeasurements"] = Success]]
         /\ amd' = [amd EXCEPT ![p] = m]
         /\ digest' = [digest EXCEPT ![p] = PinnedNoDigest]
         /\ code' = [code EXCEPT ![p] = [type |-> m.type, registers |-> <<measurement>>]]
         /\ hostRead' = [hostRead EXCEPT ![p] = enclave]
         /\ pc' = [pc EXCEPT ![p] = "buildDocument"]
         /\ UNCHANGED <<doc, thrown>>

\* the pinned-measurement branch of SecureClient.verify, entered with the
\* steps object st after verifyEnclave succeeded with measurement m
PinnedBranch(p, st, m) ==
    LET st2 == [st EXCEPT !["fetchDigest"] = Success, !["verifyCode"] = Success]
    IN  IF measurement = <<>>
        THEN FailStep(p, st2, "compareMeasurements",
                         "snp_measurement not found in provided measurement")
        ELSE IF m.registers[1] # measurement
        THEN FailStep(p, st2, "compareMeasurements", "SNP measurement mismatch")
        ELSE /\ steps' = [steps EXCEPT ![p] = [st2 EXCEPT !["compareMeasurements"] = Success]]
             /\ amd' = [amd EXCEPT ![p] = m]
             /\ digest' = [digest EXCEPT ![p] = PinnedNoDigest]
             /\ code' = [code EXCEPT ![p] = [type |-> m.type, registers |-> <<measurement>>]]
             /\ hostRead' = [hostRead EXCEPT ![p] = enclave]
             /\ pc' = [pc EXCEPT ![p] = "buildDocument"]
             /\ UNCHANGED <<doc, thrown>>

\* Step 1: fetchAttestation and verifyAmdAttestation settle
EnclaveSettles(p, recorded) ==
    /\ pc[p] = "verifyEnclave"
    /\ \/ /\ Issue(p, <<Request("fetchAttestation", AttestationUrl(enclave), FALSE)>>, recorded)
          /\ FailStep(p, steps[p], "verifyEnclave", "Failed to fetch attestation")
       \/ \E d \in AttestationDocuments, leaf \in LeafOutcomes :
            LET r == verifyAmdAttestation(d)
                st == [steps[p] EXCEPT !["verifyEnclave"] = Success]
                sent == fromReportRequests(d, leaf)
            IN  /\ Issue(p, <<Request("fetchAttestation", AttestationUrl(enclave), TRUE)>> \o sent,
                         recorded)
                /\ IF sent # <<>> /\ ~sent[1].ok
                   THEN FailStep(p, steps[p], "verifyEnclave",
                                 "Failed to fetch VCEK certificate")
                   ELSE IF ~r.ok
                   THEN FailStep(p, steps[p], "verifyEnclave", r.cause)
                   ELSE IF measurement # NoMeasurement
                   THEN PinnedBranch(p, st, r.measurement)
                   ELSE /\ steps' = [steps EXCEPT ![p] = st]
                        /\ amd' = [amd EXCEPT ![p] = r.measurement]
                        /\ pc' = [pc EXCEPT ![p] = "fetchDigest"]
                        /\ UNCHANGED <<doc, thrown, digest, code, hostRead>>
    /\ UNCHANGED <<config, enclave, calls, callNo, pure>>

\* Step 2: fetchLatestDigest settles
DigestSettles(p, recorded) ==
    /\ pc[p] = "fetchDigest"
    /\ \E outcome \in DigestOutcomes :
          /\ Issue(p, fetchLatestDigestRequests(thisRepo, outcome), recorded)
          /\ IF outcome = "releaseFailed"
             THEN FailStep(p, steps[p], "fetchDigest", "Failed to fetch release")
             ELSE IF outcome = "hashFileFailed"
             THEN FailStep(p, steps[p], "fetchDigest", "Failed to fetch attestation digest")
             ELSE \E d \in ReleaseDigests :
                    /\ digest' = [digest EXCEPT ![p] = d]
                    /\ steps' = [steps EXCEPT ![p]["fetchDigest"] = Success]
                    /\ pc' = [pc EXCEPT ![p] = "verifyCode"]
                    /\ UNCHANGED <<doc, thrown, amd, code, hostRead>>
    /\ UNCHANGED <<config, enclave, calls, callNo, pure>>

\* variant: the catch of step 4 records the failure and does not rethrow
CompareStep_NoRethrow(p, st, m) ==
    LET c == compareMeasurements(m, amd[p])
    IN  /\ steps' = [steps EXCEPT ![p] =
                        [st EXCEPT !["compareMeasurements"] =
                            IF c = "ok" THEN Success
                            ELSE Failed("Measurement registers do not match")]]
        /\ code' = [code EXCEPT ![p] = m]
        /\ hostRead' = [hostRead EXCEPT ![p] = enclave]
        /\ pc' = [pc EXCEPT ![p] = "buildDocument"]
        /\ UNCHANGED <<doc, thrown, amd, digest>>

\* Step 4, run in the same turn as the end of step 3
CompareStep(p, st, m) ==
    LET c == compareMeasurements(m, amd[p])
    IN  IF c = "ok"
        THEN /\ steps' = [steps EXCEPT ![p] = [st EXCEPT !["compareMeasurements"] = Success]]
             /\ code' = [code EXCEPT ![p] = m]
             /\ hostRead' = [hostRead EXCEPT ![p] = enclave]
             /\ pc' = [pc EXCEPT ![p] = "buildDocument"]
             /\ UNCHANGED <<doc, thrown, amd, digest>>
        ELSE FailStep(p, st, "compareMeasurements",
                      IF c = "FormatMismatchError"
                      THEN "Measurement types are incompatible"
                      ELSE "Measurement registers do not match")

\* Step 3: fetchAttestationBundle and verifySigstoreAttestation settle
CodeSettles(p, recorded) ==
    /\ pc[p] = "verifyCode"
    /\ \/ /\ Issue(p, <<Request("fetchAttestationBundle", BundleUrl(thisRepo, digest[p]), FALSE)>>, recorded)
          /\ FailStep(p, steps[p], "verifyCode", "Error fetching attestation")
       \/ \E b \in ReleaseBundles :
            LET r == verifySigstoreAttestation(impl, b, digest[p], thisRepo)
            IN  /\ Issue(p, <<Request("fetchAttestationBundle", BundleUrl(thisRepo, digest[p]), TRUE)>>, recorded)
                /\ IF ~r.ok
                   THEN FailStep(p, steps[p], "verifyCode", "Attestation processing failed")
                   ELSE CompareStep(p, [steps[p] EXCEPT !["verifyCode"] = Success],
                                    r.measurement)
    /\ UNCHANGED <<config, enclave, calls, callNo, pure>>

\* the fingerprints resolve; the document is assigned and verify() returns
BuildDocument(p) ==
    /\ pc[p] = "buildDocument"
    /\ doc' = SuccessDocument(p, enclave)
    /\ pc' = [pc EXCEPT ![p] = "returned"]
    /\ ClearLocals(p)
    /\ UNCHANGED <<config, enclave, calls, callNo, steps, thrown, ops, pure>>

\* the steps of verify()
Start(p) == Enter(p, MaxCalls, FALSE)
GetRouterAddress(p) == RouterSettles(p, FALSE)
VerifyEnclave(p) == EnclaveSettles(p, FALSE)
FetchDigest(p) == DigestSettles(p, FALSE)
VerifyCode(p) == CodeSettles(p, FALSE)

Next ==
    \E p \in Procs :
        \/ Start(p)
        \/ GetRouterAddress(p)
        \/ VerifyEnclave(p)
        \/ FetchDigest(p)
        \/ VerifyCode(p)
        \/ BuildDocument(p)

Spec == Init /\ [][Next]_vars

\* the same steps with the requests of every invocation recorded in ops
StartRecorded(p) == Enter(p, MaxRecordedCalls, TRUE)
GetRouterAddressRecorded(p) == RouterSettles(p, TRUE)
VerifyEnclaveRecorded(p) == EnclaveSettles(p, TRUE)
FetchDigestRecorded(p) == DigestSettles(p, TRUE)
VerifyCodeRecorded(p) == CodeSettles(p, TRUE)

NextRequests ==
    \E p \in Procs :
        \/ StartRecorded(p)
        \/ GetRouterAddressRecorded(p)
        \/ VerifyEnclaveRecorded(p)
        \/ FetchDigestRecorded(p)
        \/ VerifyCodeRecorded(p)
        \/ BuildDocument(p)

SpecRequests == Init /\ [][NextRequests]_vars

(***************************************************************************)
(* compareMeasurements applied to arbitrary measurements                   *)
(***************************************************************************)
RegisterLists == UNION { [1..n -> Registers] : n \in 0..MaxRegisters }
Measurements == [ type : PredicateType \cup {OtherType, EmptyType},
                  registers : RegisterLists ]

InitCompare ==
    /\ impl = ImplPolicy
    /\ measurement = NoMeasurement
    /\ enclave = ConfiguredHost
    /\ doc = NoDoc
    /\ calls = 0
    /\ InitLocals
    /\ cmp \in [a : Measurements, b : Measurements, result : {"pending"}]
    /\ prov = IdleProv
    /\ IdleSev
    /\ IdleKds
    /\ IdleAux

ApplyCompare ==
    /\ cmp.result = "pending"
    /\ cmp' = [cmp EXCEPT !.result = compareMeasurements(cmp.a, cmp.b)]
    /\ UNCHANGED <<orchestrator, prov, sev, kds, aux>>

SpecCompare == InitCompare /\ [][ApplyCompare]_vars

(***************************************************************************)
(* verifyAttestation (sigstore) applied to arbitrary bundles               *)
(***************************************************************************)
PendingResult == Rejected("pending")

InitProvenance ==
    /\ impl \in Impls
    /\ measurement = NoMeasurement
    /\ enclave = ConfiguredHost
    /\ doc = NoDoc
    /\ calls = 0
    /\ InitLocals
    /\ cmp = IdleCmp
    /\ prov \in [bundle : Bundles, digest : ReleaseDigests,
                 repo : {DEFAULT_CONFIG_REPO}, result : {PendingResult}]
    /\ IdleSev
    /\ IdleKds
    /\ IdleAux

ApplyVerifyAttestation ==
    /\ prov.result = PendingResult
    /\ prov' = [prov EXCEPT !.result =
                    verifySigstoreAttestation(impl, prov.bundle, prov.digest, prov.repo)]
    /\ UNCHANGED <<orchestrator, cmp, sev, kds, aux>>

SpecProvenance == InitProvenance /\ [][ApplyVerifyAttestation]_vars

(***************************************************************************)
(* new Report applied to arbitrary buffers                                 *)
(***************************************************************************)
InitReport ==
    /\ impl = ImplPolicy
    /\ measurement = NoMeasurement
    /\ enclave = ConfiguredHost
    /\ doc = NoDoc
    /\ calls = 0
    /\ InitLocals
    /\ cmp = IdleCmp
    /\ prov = IdleProv
    /\ \E length \in BufferLengths, version \in Versions, algo \in SignatureAlgos,
          product \in ProductBytes, n \in 0..MaxPokes :
          \E pokes \in [1..n -> Pokes] :
              rep = [data |-> PokeAll(BaseBuffer(length, version, algo, product), pokes),
                     result |-> PendingReport]
    /\ pol = IdlePol
    /\ plat = IdlePlat
    /\ val = IdleVal
    /\ IdleKds
    /\ IdleAux

ApplyReport ==
    /\ rep.result = PendingReport
    /\ rep' = [rep EXCEPT !.result = Report(rep.data)]
    /\ UNCHANGED <<orchestrator, cmp, prov, pol, plat, val, kds, aux>>

SpecReport == InitReport /\ [][ApplyReport]_vars

(***************************************************************************)
(* validatePolicy and validatePlatformInfo applied to arbitrary flags      *)
(***************************************************************************)
InitPolicy ==
    /\ impl = ImplPolicy
    /\ measurement = NoMeasurement
    /\ enclave = ConfiguredHost
    /\ doc = NoDoc
    /\ calls = 0
    /\ InitLocals
    /\ cmp = IdleCmp
    /\ prov = IdleProv
    /\ rep = IdleRep
    /\ pol \in [reportPolicy : Policies, required : Policies, result : {"pending"}]
    /\ plat = IdlePlat
    /\ val = IdleVal
    /\ IdleKds
    /\ IdleAux

ApplyValidatePolicy ==
    /\ pol.result = "pending"
    /\ pol' = [pol EXCEPT !.result = validatePolicy(pol.reportPolicy, pol.required)]
    /\ UNCHANGED <<orchestrator, cmp, prov, rep, plat, val, kds, aux>>

SpecPolicy == InitPolicy /\ [][ApplyValidatePolicy]_vars

InitPlatformInfo ==
    /\ impl = ImplPolicy
    /\ measurement = NoMeasurement
    /\ enclave = ConfiguredHost
    /\ doc = NoDoc
    /\ calls = 0
    /\ InitLocals
    /\ cmp = IdleCmp
    /\ prov = IdleProv
    /\ rep = IdleRep
    /\ pol = IdlePol
    /\ plat \in [reportInfo : SnpPlatformInfo, required : SnpPlatformInfo,
                 result : {"pending"}]
    /\ val = IdleVal
    /\ IdleKds
    /\ IdleAux

ApplyValidatePlatformInfo ==
    /\ plat.result = "pending"
    /\ plat' = [plat EXCEPT !.result = validatePlatformInfo(plat.reportInfo, plat.required)]
    /\ UNCHANGED <<orchestrator, cmp, prov, rep, pol, val, kds, aux>>

SpecPlatformInfo == InitPlatformInfo /\ [][ApplyValidatePlatformInfo]_vars

(***************************************************************************)
(* validateReport applied to arbitrary reports, certificates and options   *)
(***************************************************************************)
InitValidate ==
    /\ impl = ImplPolicy
    /\ measurement = NoMeasurement
    /\ enclave = ConfiguredHost
    /\ doc = NoDoc
    /\ calls = 0
    /\ InitLocals
    /\ cmp = IdleCmp
    /\ prov = IdleProv
    /\ rep = IdleRep
    /\ pol = IdlePol
    /\ plat = IdlePlat
    /\ \E D \in DeviationSets(MaxDeviations) :
          val = [deviations |-> D, report |-> Scenario(D).report, vcek |-> Scenario(D).vcek,
                 options |-> Scenario(D).options, result |-> "pending"]
    /\ IdleKds
    /\ IdleAux

ApplyValidateReport ==
    /\ val.result = "pending"
    /\ val' = [val EXCEPT !.result = validateReport(val.report, val.vcek, val.options)]
    /\ UNCHANGED <<orchestrator, cmp, prov, rep, pol, plat, kds, aux>>

SpecValidate == InitValidate /\ [][ApplyValidateReport]_vars

(***************************************************************************)
(* validateReport applied to reports whose current, committed and reported *)
(* TCB lie one below or one above a configured minimum in each sub-field   *)
(***************************************************************************)
\* options.minimumTcb of the run
ConfiguredMinimumTcb == [blSpl |-> 7, teeSpl |-> 1, snpSpl |-> 14, ucodeSpl |-> 72]

\* the TCB words around the configured minimum
TcbWordsAround(minimum) ==
    { TcbWord(minimum.blSpl + b, minimum.teeSpl + t, minimum.snpSpl + n, minimum.ucodeSpl + u) :
        b \in {-1, 1}, t \in {-1, 1}, n \in {-1, 1}, u \in {-1, 1} }

\* a leaf certificate issued for the reported TCB
VcekFor(reportedTcb, base) ==
    [base EXCEPT !.BL_SPL = Extension(DerInteger(tcbFromInt(reportedTcb).blSpl)),
                 !.TEE_SPL = Extension(DerInteger(tcbFromInt(reportedTcb).teeSpl)),
                 !.SNP_SPL = Extension(DerInteger(tcbFromInt(reportedTcb).snpSpl)),
                 !.UCODE = Extension(DerInteger(tcbFromInt(reportedTcb).ucodeSpl))]

InitTcb ==
    /\ impl = ImplPolicy
    /\ measurement = NoMeasurement
    /\ enclave = ConfiguredHost
    /\ doc = NoDoc
    /\ calls = 0
    /\ InitLocals
    /\ cmp = IdleCmp
    /\ prov = IdleProv
    /\ rep = IdleRep
    /\ pol = IdlePol
    /\ plat = IdlePlat
    /\ \E current, committed, reported \in TcbWordsAround(ConfiguredMinimumTcb),
          configured \in BOOLEAN :
          val = [deviations |-> {},
                 report |-> [Scenario({}).report EXCEPT !.currentTcb = current,
                                                       !.committedTcb = committed,
                                                       !.reportedTcb = reported],
                 vcek |-> VcekFor(reported, Scenario({}).vcek),
                 options |-> [defaultValidationOptions EXCEPT
                                !.minimumTcb = IF configured THEN Defined(ConfiguredMinimumTcb)
                                               ELSE Undefined(ConfiguredMinimumTcb)],
                 result |-> "pending"]
    /\ IdleKds
    /\ IdleAux

SpecTcb == InitTcb /\ [][ApplyValidateReport]_vars

(***************************************************************************)
(* Overlapping calls of CertificateChain.fromReport on one localStorage    *)
(***************************************************************************)
\* the entries a key may hold at the start: keys of the supported product
\* hold any stored item, the others nothing
InitialItems ==
    { items \in [CacheKeys -> UNION {StoredItems(r) : r \in ChainReports}] :
        \A r \in ChainReports :
            /\ items[cacheKey(r)] \in StoredItems(r)
            /\ (r.productName # "Genoa" => items[cacheKey(r)] = NoItem) }

InitCache ==
    /\ impl = ImplPolicy
    /\ measurement = NoMeasurement
    /\ enclave = ConfiguredHost
    /\ doc = NoDoc
    /\ calls = 0
    /\ InitLocals
    /\ cmp = IdleCmp
    /\ prov = IdleProv
    /\ IdleSev
    \* typeof localStorage !== 'undefined' in a browser, not elsewhere
    /\ \/ localStorage = [defined |-> FALSE, items |-> [k \in CacheKeys |-> NoItem]]
       \/ \E items \in InitialItems : localStorage = [defined |-> TRUE, items |-> items]
    /\ requests = <<>>
    /\ \E reports \in [Callers -> ChainReports] :
          chain = [c \in Callers |-> [IdleChain EXCEPT !.pc = "start", !.report = reports[c]]]
    /\ IdleAux

\* const vcek = X509Certificate.parse(vcekDer); return new CertificateChain(...)
ParseLeaf(call, vcekDer) ==
    IF IsCertificate(vcekDer)
    THEN [call EXCEPT !.pc = "done", !.vcek = X509Certificate(vcekDer)]
    ELSE [call EXCEPT !.pc = "threw", !.error = "X509Certificate.parse failed"]

\* fetchVCEK(url) up to its `await fetch(url)`
IssueFetch(c, call) ==
    LET url == buildVCEKUrl(call.report.productName, call.report.chipId,
                            call.report.reportedTcb)
    IN  /\ requests' = Append(requests, [by |-> c, url |-> url])
        /\ chain' = [chain EXCEPT ![c] = [call EXCEPT !.pc = "fetch", !.url = url]]

\* variant: the signer kind of the report is not looked at
Unsupported_SignerNotChecked(report) ==
    IF report.productName # "Genoa"
    THEN "This implementation only supports Genoa processors"
    ELSE ""

\* the two guards fromReport opens with: the message thrown, "" when both pass
Unsupported(report) ==
    IF report.productName # "Genoa"
    THEN "This implementation only supports Genoa processors"
    ELSE IF report.signingKey # VcekReportSigner
    THEN "This implementation only supports VCEK signed reports"
    ELSE ""

\* fromReport(report) from its entry to its first await, or to its end when
\* the leaf certificate comes from the cache
FromReport(c) ==
    LET call == chain[c]
        key == cacheKey(call.report)
        cached == localStorage.items[key]
        seen == [call EXCEPT !.read = TRUE, !.cached = cached]
    IN  /\ call.pc = "start"
        /\ IF Unsupported(call.report) # "" THEN
              /\ chain' = [chain EXCEPT ![c] = [call EXCEPT !.pc = "threw",
                     !.error = Unsupported(call.report)]]
              /\ UNCHANGED <<localStorage, requests>>
           ELSE IF ~localStorage.defined THEN
              /\ IssueFetch(c, call)
              /\ UNCHANGED localStorage
           ELSE IF ~Truthy(cached) THEN
              /\ IssueFetch(c, seen)
              /\ UNCHANGED localStorage
           ELSE IF atob(cached.value).ok THEN
              /\ chain' = [chain EXCEPT ![c] = ParseLeaf(seen, atob(cached.value).bytes)]
              /\ UNCHANGED <<localStorage, requests>>
           ELSE
              \* localStorage.removeItem(cacheKey)
              /\ localStorage' = [localStorage EXCEPT !.items[key] = NoItem]
              /\ IssueFetch(c, [seen EXCEPT !.evicted = TRUE])
        /\ UNCHANGED <<orchestrator, cmp, prov, sev, aux>>

\* `await fetch(url)` settles: fetchVCEK throws unless response.ok
FetchSettles(c) ==
    /\ chain[c].pc = "fetch"
    /\ \E response \in Responses(chain[c].report) :
          chain' = [chain EXCEPT ![c] =
              IF response.ok
              THEN [@ EXCEPT !.pc = "arrayBuffer", !.response = response]
              ELSE [@ EXCEPT !.pc = "threw", !.response = response,
                             !.error = "Failed to fetch VCEK certificate"]]
    /\ UNCHANGED <<localStorage, requests, orchestrator, cmp, prov, sev, aux>>

\* `await response.arrayBuffer()` settles: fetchAndCacheVCEK stores the bytes
\* (a failing setItem is ignored) and fromReport parses them
BodyArrives(c) ==
    LET call == chain[c]
        key == cacheKey(call.report)
        vcekDer == call.response.body
    IN  /\ call.pc = "arrayBuffer"
        /\ IF localStorage.defined
           THEN \E quotaExceeded \in BOOLEAN :
                   localStorage' = IF quotaExceeded THEN localStorage
                                   ELSE [localStorage EXCEPT !.items[key] = Item(btoa(vcekDer))]
           ELSE UNCHANGED localStorage
        /\ chain' = [chain EXCEPT ![c] = ParseLeaf(call, vcekDer)]
        /\ UNCHANGED <<requests, orchestrator, cmp, prov, sev, aux>>

NextCache == \E c \in Callers : FromReport(c) \/ FetchSettles(c) \/ BodyArrives(c)

SpecCache == InitCache /\ [][NextCache]_vars

(***************************************************************************)
(* verifyReportSignature: the checks on the report, the re-encoding of the *)
(* raw signature and the call of the cryptographic primitive.  The browser *)
(* copy hands the primitive a DER signature, the other copy a fixed-width  *)
(* R || S.  Integers (bigint) are their big-endian bytes without leading   *)
(* zeros, 0n being one zero byte.                                          *)
(***************************************************************************)
MaxSignaturePokes == 1
P384_SIZE == 48
DER_SEQUENCE == 48
DER_INTEGER == 2

\* new Uint8Array([...bytes].reverse())
reverseBytes(bytes) == [i \in 1..Len(bytes) |-> bytes[Len(bytes) + 1 - i]]

\* the bytes from the first non-zero one on, [0] when there is none
stripLeadingZeros(bytes) ==
    IF \A i \in 1..Len(bytes) : bytes[i] = 0
    THEN <<0>>
    ELSE LET start == CHOOSE i \in 1..Len(bytes) :
                          bytes[i] # 0 /\ \A j \in 1..(i - 1) : bytes[j] = 0
         IN  SubSeq(bytes, start, Len(bytes))

\* (result << 8n) | BigInt(byte) over the bytes: the integer they denote
bytesToBigInt(bytes) == stripLeadingZeros(bytes)

\* value.toString(16), padded to whole bytes, byte by byte
hexBytesOf(value) == value

\* bytes[startOffset + i] = ...: a write at a negative index of a typed array
\* is ignored, so a value wider than the array loses its high bytes
bigIntToFixedBytes(value, size) ==
    LET hex == hexBytesOf(value)
        startOffset == size - Len(hex)
    IN  [j \in 1..size |-> IF j - startOffset >= 1 THEN hex[j - startOffset] ELSE 0]

\* a zero byte goes in front when the top bit is set
bigIntToMinimalBytes(value) ==
    LET bytes == hexBytesOf(value)
    IN  IF bytes[1] >= 128 THEN <<0>> \o bytes ELSE bytes

\* SEQUENCE { INTEGER r, INTEGER s }; every length is stored in one byte of a
\* Uint8Array
encodeDerSignature(r, s) ==
    LET rBytes == bigIntToMinimalBytes(r)
        sBytes == bigIntToMinimalBytes(s)
        totalLength == 2 + Len(rBytes) + 2 + Len(sBytes)
    IN  [r |-> <<DER_INTEGER, Len(rBytes) % 256>> \o rBytes,
         s |-> <<DER_INTEGER, Len(sBytes) % 256>> \o sBytes,
         signature |-> <<DER_SEQUENCE, totalLength % 256>>
                         \o <<DER_INTEGER, Len(rBytes) % 256>> \o rBytes
                         \o <<DER_INTEGER, Len(sBytes) % 256>> \o sBytes]

\* rawSignature: R || S, each P384_SIZE bytes
encodeRawSignature(r, s) ==
    [r |-> bigIntToFixedBytes(r, P384_SIZE),
     s |-> bigIntToFixedBytes(s, P384_SIZE),
     signature |-> bigIntToFixedBytes(r, P384_SIZE) \o bigIntToFixedBytes(s, P384_SIZE)]

\* report.signature.slice(lo, hi) of this.signature = data.slice(SIGNATURE_OFFSET, REPORT_SIZE)
signatureSlice(data, lo, hi) == [i \in 1..(hi - lo) |-> getUint8(data, SIGNATURE_OFFSET + lo + i - 1)]

NoError == Message("")

\* variant: the signature algorithm is left to the primitive
signatureChecks_AlgoNotChecked(report) ==
    IF report.version < 2
    THEN [text |-> "Report version is lower than 2: is", numbers |-> <<report.version>>]
    ELSE IF bit64(report.policy, POLICY_RESERVED_1_BIT) = 0
    THEN Message("policy[17] is reserved, must be 1, got 0")
    ELSE IF \E i \in 26..63 : bit64(report.policy, i) = 1
    THEN Message("policy bits 63-26 must be zero")
    ELSE NoError

\* the throws of verifyReportSignature that come before the conversion
signatureChecks(report) ==
    IF report.version < 2
    THEN [text |-> "Report version is lower than 2: is", numbers |-> <<report.version>>]
    ELSE IF bit64(report.policy, POLICY_RESERVED_1_BIT) = 0
    THEN Message("policy[17] is reserved, must be 1, got 0")
    ELSE IF \E i \in 26..63 : bit64(report.policy, i) = 1
    THEN Message("policy bits 63-26 must be zero")
    ELSE IF report.signatureAlgo # 1
    THEN [text |-> "Unknown SignatureAlgo:", numbers |-> <<report.signatureAlgo>>]
    ELSE NoError

\* the signature handed to crypto.subtle.verify by the build's copy
encodeSignature(copy, data) ==
    LET r == bytesToBigInt(stripLeadingZeros(reverseBytes(signatureSlice(data, 0, ECDSA_RS_SIZE))))
        s == bytesToBigInt(stripLeadingZeros(reverseBytes(
                 signatureSlice(data, ECDSA_RS_SIZE, ECDSA_RS_SIZE + ECDSA_RS_SIZE))))
    IN  IF copy = "der" THEN encodeDerSignature(r, s) ELSE encodeRawSignature(r, s)

SignatureCopies == {"der", "raw"}
\* bytes 0, 1, 47, 48 and 71 of R and of S, and the first byte after S
SignaturePokeOffsets ==
    { \H2A0, \H2A1, \H2CF, \H2D0, \H2E7, \H2E8, \H2E9, \H317, \H318, \H32F, \H330 }
SignaturePokeValues == {1, \H7F, \H80, \HFF}
SignaturePokes == SignaturePokeOffsets \X SignaturePokeValues
SignatureVersions == {2, 3}

InitSignature ==
    /\ impl = ImplPolicy
    /\ measurement = NoMeasurement
    /\ enclave = ConfiguredHost
    /\ doc = NoDoc
    /\ calls = 0
    /\ InitLocals
    /\ cmp = IdleCmp
    /\ prov = IdleProv
    /\ IdleSev
    /\ IdleKds
    /\ vch = IdleVch
    /\ \E copy \in SignatureCopies, version \in SignatureVersions, algo \in SignatureAlgos,
          n \in 0..MaxSignaturePokes :
          \E pokes \in [1..n -> SignaturePokes] :
              sig = [IdleSig EXCEPT
                       !.copy = copy,
                       \* a version-2 report has no product bytes
                       !.data = PokeAll(BaseBuffer(REPORT_SIZE, version, algo,
                                            IF version = 2 THEN <<0, 0>>
                                            ELSE <<ZEN3ZEN4_FAMILY, GENOA_MODEL>>), pokes),
                       !.pc = "new"]
    /\ att = IdleAtt
    /\ sc = IdleSc

\* const report = new Report(data)
ParseSignedReport ==
    /\ sig.pc = "new"
    /\ sig' = [sig EXCEPT !.report = Report(sig.data),
                          !.pc = IF Report(sig.data).ok THEN "parsed" ELSE "done",
                          !.result = IF Report(sig.data).ok THEN "idle" ELSE "throws",
                          !.error = Report(sig.data).error]
    /\ UNCHANGED <<orchestrator, cmp, prov, sev, kds, vch, att, sc>>

\* verifyReportSignature up to its await of crypto.subtle.verify
VerifyReportSignature ==
    /\ sig.pc = "parsed"
    /\ IF signatureChecks(sig.report.report) # NoError
       THEN sig' = [sig EXCEPT !.pc = "done", !.result = "throws",
                               !.error = signatureChecks(sig.report.report)]
       ELSE sig' = [sig EXCEPT !.pc = "crypto.subtle.verify", !.invoked = TRUE,
                               !.encoded = encodeSignature(sig.copy, sig.data)]
    /\ UNCHANGED <<orchestrator, cmp, prov, sev, kds, vch, att, sc>>

\* crypto.subtle.verify settles: isValid, or a rejection that is rethrown
PrimitiveSettles ==
    /\ sig.pc = "crypto.subtle.verify"
    /\ \E outcome \in {"true", "false", "throws"} :
          sig' = [sig EXCEPT !.pc = "done", !.result = outcome,
                             !.error = IF outcome = "throws"
                                       THEN Message("Attestation signature verification failed")
                                       ELSE NoError]
    /\ UNCHANGED <<orchestrator, cmp, prov, sev, kds, vch, att, sc>>

NextSignature == ParseSignedReport \/ VerifyReportSignature \/ PrimitiveSettles
SpecSignature == InitSignature /\ [][NextSignature]_vars

(***************************************************************************)
(* CertificateChain.verifyChain.  A certificate is the key it certifies,   *)
(* the key its signature was made with ("unparseable" when the library     *)
(* cannot read the signature and throws), whether it passes the format     *)
(* validation of its role and whether it is valid at the current date.     *)
(***************************************************************************)
\* cert.verify(issuer), cert.verify() for a self-signed certificate
verifyCertificate(cert, issuer) ==
    IF cert.signedBy = "unparseable" THEN "throws"
    ELSE IF cert.signedBy = issuer.key THEN "true" ELSE "false"

ChainFailed(text) ==
    [result |-> "throws", error |-> Message("Certificate chain verification failed: Error: " \o text)]

\* variant: the leaf is taken without its signature being verified
verifyChain_LeafLinkUnchecked(c) ==
    IF ~c.ark.formatOk THEN ChainFailed("ARK certificate version is not v3")
    ELSE IF ~c.ask.formatOk THEN ChainFailed("ASK certificate version is not v3")
    ELSE IF ~c.vcek.formatOk THEN ChainFailed("VCEK certificate version is not v3")
    ELSE IF ~c.ark.validNow THEN ChainFailed("ARK certificate is not valid for current date")
    ELSE IF ~c.ask.validNow THEN ChainFailed("ASK certificate is not valid for current date")
    ELSE IF ~c.vcek.validNow THEN ChainFailed("VCEK certificate is not valid for current date")
    ELSE IF verifyCertificate(c.ark, c.ark) = "throws" THEN ChainFailed("signature verification threw")
    ELSE IF verifyCertificate(c.ark, c.ark) = "false" THEN ChainFailed("ARK certificate is not self-signed")
    ELSE IF verifyCertificate(c.ask, c.ark) = "throws" THEN ChainFailed("signature verification threw")
    ELSE IF verifyCertificate(c.ask, c.ark) = "false" THEN ChainFailed("ASK certificate is not signed by ARK")
    ELSE [result |-> "true", error |-> Message("")]

\* verifyChain(): true, or the rethrown error of the first step that failed (the
\* version check standing for the checks of a format validator)
verifyChain(c) ==
    IF ~c.ark.formatOk THEN ChainFailed("ARK certificate version is not v3")
    ELSE IF ~c.ask.formatOk THEN ChainFailed("ASK certificate version is not v3")
    ELSE IF ~c.vcek.formatOk THEN ChainFailed("VCEK certificate version is not v3")
    ELSE IF ~c.ark.validNow THEN ChainFailed("ARK certificate is not valid for current date")
    ELSE IF ~c.ask.validNow THEN ChainFailed("ASK certificate is not valid for current date")
    ELSE IF ~c.vcek.validNow THEN ChainFailed("VCEK certificate is not valid for current date")
    ELSE IF verifyCertificate(c.ark, c.ark) = "throws" THEN ChainFailed("signature verification threw")
    ELSE IF verifyCertificate(c.ark, c.ark) = "false" THEN ChainFailed("ARK certificate is not self-signed")
    ELSE IF verifyCertificate(c.ask, c.ark) = "throws" THEN ChainFailed("signature verification threw")
    ELSE IF verifyCertificate(c.ask, c.ark) = "false" THEN ChainFailed("ASK certificate is not signed by ARK")
    ELSE IF verifyCertificate(c.vcek, c.ask) = "throws" THEN ChainFailed("signature verification threw")
    ELSE IF verifyCertificate(c.vcek, c.ask) = "false" THEN ChainFailed("VCEK certificate is not signed by ASK")
    ELSE [result |-> "true", error |-> Message("")]

SigningKeys == {"ARK", "ASK", "other", "unparseable"}
Certificates(key) ==
    [key : {key}, signedBy : SigningKeys, formatOk : BOOLEAN, validNow : BOOLEAN]

InitChain ==
    /\ impl = ImplPolicy
    /\ measurement = NoMeasurement
    /\ enclave = ConfiguredHost
    /\ doc = NoDoc
    /\ calls = 0
    /\ InitLocals
    /\ cmp = IdleCmp
    /\ prov = IdleProv
    /\ IdleSev
    /\ IdleKds
    /\ \E ark \in Certificates("ARK"), ask \in Certificates("ASK"), vcek \in Certificates("VCEK") :
          vch = [IdleVch EXCEPT !.ark = ark, !.ask = ask, !.vcek = vcek, !.pc = "start"]
    /\ sig = IdleSig
    /\ att = IdleAtt
    /\ sc = IdleSc

\* await chain.verifyChain()
ApplyVerifyChain ==
    /\ vch.pc = "start"
    /\ vch' = [vch EXCEPT !.pc = "done", !.result = verifyChain(vch).result,
                          !.error = verifyChain(vch).error]
    /\ UNCHANGED <<orchestrator, cmp, prov, sev, kds, sig, att, sc>>

SpecChain == InitChain /\ [][ApplyVerifyChain]_vars

(***************************************************************************)
(* verifyAttestation(doc) of the attestation module: verifySevReport and   *)
(* the response built from the report it returns.  The document is what    *)
(* each stage makes of it: whether it decodes and unzips, the report       *)
(* buffer, the values of the report's fields that validateReport reads     *)
(* (a Scenario), the leaf certificate's fetch and the chain it belongs to. *)
(***************************************************************************)
AttestationFormats == {SevGuestV1, SevGuestV2, SnpTdxMultiplatformV1}
AttestationBuffers ==
    { BaseBuffer(REPORT_SIZE, 3, 1, <<ZEN3ZEN4_FAMILY, GENOA_MODEL>>),
      BaseBuffer(REPORT_SIZE, 3, 0, <<ZEN3ZEN4_FAMILY, GENOA_MODEL>>),
      BaseBuffer(REPORT_SIZE - 1, 3, 1, <<ZEN3ZEN4_FAMILY, GENOA_MODEL>>) }
AttestationDeviations == { {}, {"report.policy.debug"}, {"vcek.UCODE=73"}, {"report.measurement=B"} }
GenuineCert(key, signedBy) == [key |-> key, signedBy |-> signedBy, formatOk |-> TRUE, validNow |-> TRUE]
AttestationChains ==
    { [ark |-> GenuineCert("ARK", "ARK"), ask |-> GenuineCert("ASK", "ARK"), vcek |-> GenuineCert("VCEK", vcekSigner)]
        : vcekSigner \in {"ASK", "other", "unparseable"} }
      \cup { [ark |-> GenuineCert("ARK", "ARK"), ask |-> GenuineCert("ASK", "ARK"),
              vcek |-> [GenuineCert("VCEK", "ASK") EXCEPT !.validNow = FALSE]] }

\* variant: the boolean of verifyAttestation is not looked at
attestationAccepted_Unchecked(res) == TRUE

\* if (!res) throw new Error('Attestation verification failed!')
attestationAccepted(res) == res = "true"

\* the AttestationResponse built from the verified report
attestationResponse(format, report) ==
    IF format = SevGuestV1
    THEN [defined |-> TRUE,
          measurement |-> [type |-> SevGuestV1, registers |-> <<bytesToHex(report.measurement)>>],
          tlsPublicKeyFingerprint |-> report.reportData,
          hpkePublicKey |-> <<>>]
    ELSE [defined |-> TRUE,
          measurement |-> [type |-> SevGuestV2, registers |-> <<bytesToHex(report.measurement)>>],
          tlsPublicKeyFingerprint |-> bytesToHex(SubSeq(report.reportData, 1, 32)),
          hpkePublicKey |-> bytesToHex(SubSeq(report.reportData, 33, 64))]

InitAttestation ==
    /\ impl = ImplPolicy
    /\ measurement = NoMeasurement
    /\ enclave = ConfiguredHost
    /\ doc = NoDoc
    /\ calls = 0
    /\ InitLocals
    /\ cmp = IdleCmp
    /\ prov = IdleProv
    /\ IdleSev
    /\ IdleKds
    /\ vch = IdleVch
    /\ sig = IdleSig
    /\ \E format \in AttestationFormats, copy \in SignatureCopies, base64Ok \in BOOLEAN,
          gzipOk \in BOOLEAN, data \in AttestationBuffers, D \in AttestationDeviations,
          leaf \in {"fetched", "fetchFailed"}, certs \in AttestationChains :
          att = [IdleAtt EXCEPT !.format = format, !.copy = copy, !.base64Ok = base64Ok,
                                !.gzipOk = gzipOk, !.data = data, !.deviations = D,
                                !.leaf = leaf, !.certs = certs, !.pc = "start"]
    /\ sc = IdleSc

AttThrows(text) == [att EXCEPT !.pc = "done", !.error = Message(text)]

\* verifyAttestation(doc) up to the call of CertificateChain.fromReport
DecodeAndParse ==
    /\ att.pc = "start"
    /\ att' =
         IF att.format \notin {SevGuestV1, SevGuestV2}
         THEN AttThrows("Unsupported attestation format")
         ELSE IF ~att.base64Ok THEN AttThrows("Failed to decode base64")
         ELSE IF att.format = SevGuestV2 /\ ~att.gzipOk THEN AttThrows("gzip decompression failed")
         ELSE IF ~Report(att.data).ok THEN AttThrows("Failed to parse report")
         ELSE [att EXCEPT !.pc = "fromReport", !.log = Append(@, "parsed")]
    /\ UNCHANGED <<orchestrator, cmp, prov, sev, kds, vch, sig, sc>>

\* await CertificateChain.fromReport(report), then verifyAttestation of the
\* sev module up to the end of chain.verifyChain()
ChainSettles ==
    /\ att.pc = "fromReport"
    /\ att' =
         IF att.leaf = "fetchFailed" THEN AttThrows("Failed to fetch VCEK certificate")
         ELSE IF verifyChain(att.certs).result # "true"
         THEN AttThrows("Failed to verify attestation")
         ELSE [att EXCEPT !.pc = "verifyReportSignature", !.log = Append(@, "chainVerified")]
    /\ UNCHANGED <<orchestrator, cmp, prov, sev, kds, vch, sig, sc>>

\* verifyReportSignature(await chain.vcekPublicKey, report) with the answer of
\* the cryptographic primitive, and the rest of verifySevReport
SignatureSettles ==
    /\ att.pc = "verifyReportSignature"
    /\ \E primitive \in {"true", "false", "throws"} :
          LET report == Report(att.data).report
              scenario == Scenario(att.deviations)
              \* res of verifySevReport, "throws" when verifyAttestation threw
              res == IF signatureChecks(report) # NoError \/ primitive = "throws" THEN "throws"
                     ELSE IF primitive = "true" THEN "true"
                     ELSE IF att.copy = "der" THEN "false" ELSE "throws"
              invoked == signatureChecks(report) = NoError
              keyed == [att EXCEPT !.key = IF invoked THEN att.certs.vcek.key ELSE "",
                                    !.isValid = IF invoked THEN primitive ELSE ""]
          IN  att' =
                IF res = "throws"
                THEN [keyed EXCEPT !.pc = "done", !.error = Message("Failed to verify attestation")]
                ELSE IF ~attestationAccepted(res)
                THEN [keyed EXCEPT !.pc = "done", !.error = Message("Attestation verification failed!")]
                ELSE IF validateReport(scenario.report, scenario.vcek, defaultValidationOptions) # "ok"
                THEN [keyed EXCEPT !.pc = "done", !.log = Append(@, "signatureVerified"),
                                   !.error = Message("Failed to validate report")]
                ELSE [keyed EXCEPT !.pc = "done",
                                   !.log = @ \o <<"signatureVerified", "validated">>,
                                   !.response = attestationResponse(att.format, scenario.report)]
    /\ UNCHANGED <<orchestrator, cmp, prov, sev, kds, vch, sig, sc>>

NextAttestation == DecodeAndParse \/ ChainSettles \/ SignatureSettles
SpecAttestation == InitAttestation /\ [][NextAttestation]_vars

(***************************************************************************)
(* SecureClient: the lazy initialisation shared by ready(), fetch and      *)
(* getVerificationDocument().  Each call is a numbered invocation; the     *)
(* router, the Verifier, createSecureFetch and the transport answer as     *)
(* they like.                                                              *)
(***************************************************************************)
ClientCallKinds == {"ready", "fetch", "getVerificationDocument"}

InitClient ==
    /\ impl = ImplPolicy
    /\ measurement = NoMeasurement
    /\ enclave = ConfiguredHost
    /\ doc = NoDoc
    /\ calls = 0
    /\ InitLocals
    /\ cmp = IdleCmp
    /\ prov = IdleProv
    /\ IdleSev
    /\ IdleKds
    /\ vch = IdleVch
    /\ sig = IdleSig
    /\ att = IdleAtt
    \* options.enclaveURL given to the constructor or not
    /\ \E enclaveURL \in BOOLEAN : sc = [IdleSc EXCEPT !.enclaveURL = enclaveURL]

\* variant: a rejected initialisation is started again by the next call
needsInit_RetryAfterFailure(initPromise) == initPromise \in {"null", "rejected"}

\* if (!this.initPromise)
needsInit(initPromise) == initPromise = "null"

\* this.initPromise = this.initSecureClient(): the function runs to its first
\* await, fetchRouter() without an enclave URL, verifier.verify() with one
startInit(client) ==
    [client EXCEPT !.initPromise = "pending",
                   !.initError = "",
                   !.inits = @ + 1,
                   !.initPc = IF client.enclaveURL THEN "verify" ELSE "fetchRouter",
                   !.verifyCalls = IF client.enclaveURL THEN @ + 1 ELSE @]

\* ready(): the initialisation after the call
ready(client) == IF needsInit(client.initPromise) THEN startInit(client) ELSE client

\* variant: the catch of initSecureClient swallows the error
initRejected_ErrorSwallowed(client, error, document) ==
    [client EXCEPT !.initPromise = "fulfilled", !.initPc = "done", !.initError = "",
                   !.verificationDocument = document]

\* initSecureClient throws: its promise is rejected with the error
initRejected(client, error, document) ==
    [client EXCEPT !.initPromise = "rejected", !.initPc = "done", !.initError = error,
                   !.verificationDocument = document]

\* a call begins: ready(), fetch(input) or getVerificationDocument() up to
\* its first await
ClientCall(c) ==
    /\ sc.call[c].pc = "idle"
    /\ \A b \in ClientCalls : b < c => sc.call[b].pc # "idle"
    /\ \E kind \in ClientCallKinds :
          sc' = [ready(sc) EXCEPT
                    !.call[c].kind = kind,
                    !.call[c].pc = IF kind = "getVerificationDocument" /\ ~needsInit(sc.initPromise)
                                   THEN "initPromise.catch" ELSE "ready"]
    /\ UNCHANGED <<orchestrator, cmp, prov, sev, kds, vch, sig, att>>

\* await fetchRouter() settles
ClientRouterSettles ==
    /\ sc.initPc = "fetchRouter"
    /\ \E ok \in BOOLEAN :
          sc' = IF ok
                THEN [sc EXCEPT !.enclaveURL = TRUE, !.initPc = "verify", !.verifyCalls = @ + 1]
                ELSE initRejected(sc, "Failed to fetch router", sc.verificationDocument)
    /\ UNCHANGED <<orchestrator, cmp, prov, sev, kds, vch, sig, att>>

\* await verifier.verify() settles, and the rest of initSecureClient
ClientVerifySettles ==
    /\ sc.initPc = "verify"
    /\ \E verified \in BOOLEAN, hasDocument \in BOOLEAN, transportOk \in BOOLEAN :
          sc' = IF ~verified
                THEN initRejected(sc, "verify failed",
                                  IF hasDocument THEN "failed" ELSE "fallback")
                ELSE IF ~hasDocument
                THEN initRejected(sc, "Verification document not available after successful verification",
                                  "fallback")
                ELSE IF ~transportOk
                THEN initRejected([sc EXCEPT !.transports = @ + 1],
                                  "Transport initialization failed", "failed")
                ELSE [sc EXCEPT !.initPromise = "fulfilled", !.initPc = "done",
                                !.verificationDocument = "verified",
                                !.transports = @ + 1, !.fetch = "secureFetch"]
    /\ UNCHANGED <<orchestrator, cmp, prov, sev, kds, vch, sig, att>>

CallEnds(c, result, error) ==
    [sc EXCEPT !.call[c].pc = "done", !.call[c].result = result, !.call[c].error = error]

\* the await of ready() ends in a call
ReadySettles(c) ==
    /\ sc.call[c].pc = "ready"
    /\ sc.initPromise \in {"fulfilled", "rejected"}
    /\ sc' =
         IF sc.initPromise = "rejected"
         THEN CallEnds(c, "rejected", sc.initError)
         ELSE IF sc.call[c].kind = "ready"
         THEN CallEnds(c, "fulfilled", "")
         ELSE IF sc.call[c].kind = "getVerificationDocument"
         THEN [sc EXCEPT !.call[c].pc = "initPromise.catch"]
         \* this._fetch!(input, init): a call of null is a TypeError, caught
         \* and rethrown
         ELSE IF sc.fetch = "null"
         THEN [CallEnds(c, "rejected", "TypeError: this._fetch is not a function")
                  EXCEPT !.verificationDocument = IF @ = "null" THEN @ ELSE "failed"]
         ELSE [sc EXCEPT !.call[c].pc = "_fetch", !.call[c].sent = TRUE, !.sent = @ + 1]
    /\ UNCHANGED <<orchestrator, cmp, prov, sev, kds, vch, sig, att>>

\* await this.initPromise.catch(() => {}) ends in getVerificationDocument()
DocumentSettles(c) ==
    /\ sc.call[c].pc = "initPromise.catch"
    /\ sc.initPromise \in {"fulfilled", "rejected"}
    /\ sc' = IF sc.verificationDocument = "null"
             THEN CallEnds(c, "rejected", "Verification document unavailable: client not verified yet")
             ELSE CallEnds(c, sc.verificationDocument, "")
    /\ UNCHANGED <<orchestrator, cmp, prov, sev, kds, vch, sig, att>>

\* the secure transport answers a request or fails it
TransportSettles(c) ==
    /\ sc.call[c].pc = "_fetch"
    /\ \E ok \in BOOLEAN :
          sc' = IF ok
                THEN CallEnds(c, "fulfilled", "")
                ELSE [CallEnds(c, "rejected", "HPKE public key mismatch")
                         EXCEPT !.verificationDocument = "failed"]
    /\ UNCHANGED <<orchestrator, cmp, prov, sev, kds, vch, sig, att>>

NextClient ==
    \/ \E c \in ClientCalls : ClientCall(c)
    \/ ClientRouterSettles
    \/ ClientVerifySettles
    \/ \E c \in ClientCalls : ReadySettles(c)
    \/ \E c \in ClientCalls : DocumentSettles(c)
    \/ \E c \in ClientCalls : TransportSettles(c)
SpecClient == InitClient /\ [][NextClient]_vars

(***************************************************************************)
(* Properties                                                              *)
(***************************************************************************)
AllSuccess(st) == \A s \in StepNames : st[s].status = "success"

\* invocation p completes (returns or rejects) in this step
Returns(p) == pc[p] # "returned" /\ pc'[p] = "returned"
Throws(p) == pc[p] # "threw" /\ pc'[p] = "threw"

\* C1: in every stored document, securityVerified is true only if the
\* compareMeasurements step has status 'success', and then fetchDigest,
\* verifyCode and verifyEnclave have status 'success' too.
C1_SecurityVerifiedOnlyIfAllSuccess ==
    (doc.defined /\ doc.securityVerified) =>
        /\ doc.steps["compareMeasurements"].status = "success"
        /\ AllSuccess(doc.steps)

\* a verified document is stored after an earlier call stored a failed one
C1_Witness ==
    /\ doc.defined
    /\ doc.securityVerified
    /\ calls = MaxCalls

\* C2: verify() returns normally only when all four steps succeeded, and at
\* the moment it returns the stored document has securityVerified=true and
\* no step with status 'failed'; a call with a failed step rejects.
C2_ReturnsOnlyWhenVerified ==
    [][\A p \in Procs :
         /\ Returns(p) =>
               /\ AllSuccess(steps'[p])
               /\ doc'.defined
               /\ doc'.securityVerified
               /\ \A s \in StepNames : doc'.steps[s].status # "failed"
         /\ (\E s \in StepNames : steps'[p][s].status = "failed") => pc'[p] = "threw"
      ]_vars

\* one call has returned and another has rejected with a failed step
C2_Witness ==
    \E p, q \in Procs :
        /\ pc[p] = "returned"
        /\ pc[q] = "threw"
        /\ steps[q]["compareMeasurements"].status = "failed"

\* C3: once any verify() call has completed, by returning or by throwing,
\* getVerificationDocument() returns a defined document.
C3_DocumentDefinedAfterVerify ==
    (\E p \in Procs : pc[p] \in {"returned", "threw"}) => doc.defined

\* a call rejected before any step was attempted (the router lookup failed)
C3_Witness ==
    \E p \in Procs :
        /\ pc[p] = "threw"
        /\ steps[p] = PendingSteps
        /\ doc.defined

\* C4: when a verify() call completes, the stored document is the one that
\* call built: its steps map is the call's steps map and securityVerified
\* tells whether the call returned; after a call that throws it is false.
C4_DocumentReplacedByEveryCall ==
    [][\A p \in Procs :
         (Returns(p) \/ Throws(p)) =>
            /\ doc'.defined
            /\ doc'.object = callNo'[p]
            /\ doc'.steps = steps'[p]
            /\ doc'.securityVerified = (pc'[p] = "returned")
      ]_vars

\* the order in which verify() attempts the steps
StepOrder == <<"verifyEnclave", "fetchDigest", "verifyCode", "compareMeasurements">>

\* C5: when a step fails, the failed document stored at the moment the call
\* rejects has exactly one 'failed' step, carrying the error's message; the
\* steps before it are 'success', the steps after it 'pending'.
C5_FailedDocumentShape ==
    [][\A p \in Procs :
         (Throws(p) /\ steps'[p] # PendingSteps) =>
            /\ doc' = FailedDocument(steps'[p], enclave', callNo'[p])
            /\ ~doc'.securityVerified
            /\ \E k \in 1..4 :
                  /\ doc'.steps[StepOrder[k]] = Failed(thrown'[p])
                  /\ \A j \in 1..(k - 1) : doc'.steps[StepOrder[j]] = Success
                  /\ \A j \in (k + 1)..4 : doc'.steps[StepOrder[j]] = Pending
      ]_vars

\* a call failed at verifyCode after an earlier call had stored a document
C5_Witness ==
    \E p \in Procs :
        /\ pc[p] = "threw"
        /\ steps[p]["verifyCode"].status = "failed"
        /\ calls = MaxCalls

\* C6: in every stored document, compareMeasurements other than 'pending'
\* implies the other three steps are 'success', and verifyCode other than
\* 'pending' implies fetchDigest is 'success'.
C6_StepOrderInDocument ==
    doc.defined =>
        /\ doc.steps["compareMeasurements"].status # "pending" =>
              /\ doc.steps["fetchDigest"].status = "success"
              /\ doc.steps["verifyCode"].status = "success"
              /\ doc.steps["verifyEnclave"].status = "success"
        /\ doc.steps["verifyCode"].status # "pending" =>
              doc.steps["fetchDigest"].status = "success"

\* a pinned-measurement run whose comparison failed
C6_Witness ==
    /\ doc.defined
    /\ measurement # NoMeasurement
    /\ doc.steps["compareMeasurements"].status = "failed"

\* the types are identical or both in the SNP-compatible family
SnpFamily == {SevGuestV1, SevGuestV2, SnpTdxMultiplatformV1}
TypesCompatible(a, b) == a.type = b.type \/ {a.type, b.type} \subseteq SnpFamily

\* C7: compareMeasurements(a, b) returns without throwing exactly when the
\* types are compatible and the register lists are equal; it throws
\* FormatMismatchError whenever the types are incompatible and
\* MeasurementMismatchError whenever they are compatible but the registers differ.
C7_CompareMeasurements ==
    cmp.result \notin {"idle", "pending"} =>
        /\ cmp.result = "ok" <=>
              (TypesCompatible(cmp.a, cmp.b) /\ cmp.a.registers = cmp.b.registers)
        /\ ~TypesCompatible(cmp.a, cmp.b) => cmp.result = "FormatMismatchError"
        /\ (TypesCompatible(cmp.a, cmp.b) /\ cmp.a.registers # cmp.b.registers) =>
              cmp.result = "MeasurementMismatchError"
        /\ cmp.a = cmp.b => cmp.result = "ok"

\* two SNP types, the first register list a proper prefix of the second
C7_Witness ==
    /\ cmp.result = "MeasurementMismatchError"
    /\ cmp.a.type # cmp.b.type
    /\ Len(cmp.a.registers) < Len(cmp.b.registers)
    /\ \A i \in 1..Len(cmp.a.registers) : cmp.a.registers[i] = cmp.b.registers[i]

\* C8: in every stored document with securityVerified=true, codeFingerprint
\* equals enclaveFingerprint.
C8_FingerprintsMatch ==
    (doc.defined /\ doc.securityVerified) =>
        doc.codeFingerprint = doc.enclaveFingerprint

\* a verified document whose two measurements have different (compatible) types
C8_Witness ==
    /\ doc.defined
    /\ doc.securityVerified
    /\ doc.codeMeasurement.type # doc.enclaveMeasurement.type

Applied == prov.result # PendingResult /\ prov.result # Rejected("idle")

\* the bundle passes every check of verifyAttestation other than the digest check
OtherChecksPass ==
    verifySigstoreAttestation(impl, [prov.bundle EXCEPT !.subjectDigest = prov.digest],
                              prov.digest, prov.repo).ok

\* C9 as stated: a bundle is accepted only if its subject digest equals the
\* expected digest compared case-insensitively, digests that differ only in
\* letter case are treated as equal, and any other difference is rejected.
C9_Original_CaseInsensitive ==
    Applied =>
        (prov.result.ok <=>
            (OtherChecksPass /\ Lower(prov.bundle.subjectDigest) = Lower(prov.digest)))

\* C9 amended: a bundle is accepted only if its subject digest is the
\* expected digest character for character, letter case included; a digest
\* that differs in one character, or only in letter case, is rejected.
C9_ExactDigest ==
    Applied =>
        /\ prov.result.ok => prov.bundle.subjectDigest = prov.digest
        /\ prov.bundle.subjectDigest # prov.digest => ~prov.result.ok

\* a bundle that passes every other check and differs from the expected
\* digest only in letter case is rejected at the digest check
C9_Witness ==
    /\ Applied
    /\ OtherChecksPass
    /\ prov.bundle.subjectDigest # prov.digest
    /\ Lower(prov.bundle.subjectDigest) = Lower(prov.digest)
    /\ prov.result = Rejected("Provided digest does not match verified DSSE payload digest")

\* C10: every copy of the provenance verifier accepts a bundle only if the
\* signing certificate's workflow reference matches refs/tags/*.
C10_OnlyTagRefsAccepted ==
    (Applied /\ prov.result.ok) =>
        /\ prov.bundle.workflowRef # NoExt
        /\ matchesRefsTagsPrefix(prov.bundle.workflowRef)

RepApplied == rep.result # PendingReport /\ rep.result.error # Message("idle")

\* the reserved spans and bits of the report layout: some byte or bit of them
\* is not zero in the buffer
ReservedNonZero(data) ==
    LET version == getUint32(data, \H00)
        identityEnd == IF version >= 3 THEN \H18B ELSE \H188
        inSpan(i) == \/ (\H4C <= i /\ i < \H50)
                     \/ (identityEnd <= i /\ i < \H1A0)
                     \/ i = \H1EB
                     \/ i = \H1EF
                     \/ (\H1F8 <= i /\ i < \H2A0)
                     \/ (\H330 <= i /\ i < \H4A0)
                     \* bits 63-26 of the policy word
                     \/ (i = \H0B /\ data.bytes[i] >= 4)
                     \/ (\H0C <= i /\ i < \H10)
                     \* bits 47-16 of the four TCB words
                     \/ \E w \in {\H38, \H180, \H1E0, \H1F0} : w + 2 <= i /\ i < w + 6
                     \* bits 31-5 of the signer-info word
                     \/ (i = \H48 /\ data.bytes[i] >= 32)
                     \/ (\H49 <= i /\ i < \H4C)
    IN  \E i \in DOMAIN data.bytes : inSpan(i)

\* C12: for every buffer of at least 0x4A0 bytes, new Report fails when a
\* reserved byte or bit is not zero, whatever the other fields hold (the
\* signature-algorithm field included).
C12_ReservedAlwaysRejected ==
    (RepApplied /\ rep.data.length >= REPORT_SIZE /\ ReservedNonZero(rep.data))
        => ~rep.result.ok

\* C13: new Report on a buffer shorter than 0x4A0 bytes fails with the error
\* that names the array size and the report size, and has assigned no field
\* of the report when it throws.
C13_ShortBufferSizeError ==
    (RepApplied /\ rep.data.length < REPORT_SIZE)
        => /\ ~rep.result.ok
           /\ rep.result.error = ArraySizeError(rep.data.length)
           /\ REPORT_SIZE \in {rep.result.error.numbers[i] :
                                   i \in DOMAIN rep.result.error.numbers}
           /\ rep.result.assigned = 0

\* a short buffer whose content the field checks would reject got the size error
C13_Witness ==
    /\ RepApplied
    /\ rep.data.length = REPORT_SIZE - 1
    /\ byteAt(rep.data, \H0A) = 0
    /\ rep.result.error = ArraySizeError(REPORT_SIZE - 1)

\* the product-name lookup table: <<family, model, name>>
ProductTable == { <<\H19, 1, "Milan">>, <<\H19, \H11, "Genoa">>, <<\H1A, 2, "Turin">> }
TableName(family, model) ==
    IF \E row \in ProductTable : row[1] = family /\ row[2] = model
    THEN (CHOOSE row \in ProductTable : row[1] = family /\ row[2] = model)[3]
    ELSE "Unknown"

\* C14: a version-2 report gets the fixed product identity (family 0x19, model
\* 0x11, stepping 1, name 'Genoa'); a report of version 3 or more gets family,
\* model and stepping from bytes 0x188-0x18A and its name from the lookup
\* table; every other version makes new Report fail.
C14_ProductIdentityByVersion ==
    (RepApplied /\ rep.data.length >= REPORT_SIZE) =>
        LET version == getUint32(rep.data, \H00)
            r == rep.result.report
        IN  /\ (version < 2 => ~rep.result.ok)
            /\ (rep.result.ok /\ version = 2) =>
                    /\ r.family = \H19 /\ r.model = \H11 /\ r.stepping = 1
                    /\ r.productName = "Genoa"
            /\ (rep.result.ok /\ version >= 3) =>
                    /\ r.family = byteAt(rep.data, \H188)
                    /\ r.model = byteAt(rep.data, \H189)
                    /\ r.stepping = byteAt(rep.data, \H18A)
                    /\ r.productName = TableName(r.family, r.model)

\* a version-3 report whose product bytes name Milan was parsed
C14_Witness ==
    /\ RepApplied /\ rep.result.ok
    /\ rep.result.report.version = 3
    /\ rep.result.report.productName = "Milan"
    /\ rep.result.report.stepping = 1

PolApplied == pol.result \notin {"pending", "idle"}

\* the value of a flag of a policy
FlagOf(policy, flag) ==
    CASE flag = "smt" -> policy.smt
      [] flag = "migrateMa" -> policy.migrateMa
      [] flag = "debug" -> policy.debug
      [] flag = "singleSocket" -> policy.singleSocket
      [] flag = "cxlAllowed" -> policy.cxlAllowed
      [] flag = "memAes256Xts" -> policy.memAes256Xts
      [] flag = "raplDis" -> policy.raplDis
      [] flag = "ciphertextHidingDram" -> policy.ciphertextHidingDram
      [] flag = "pageSwapDisabled" -> policy.pageSwapDisabled

\* C16 as stated: for each guest-policy flag validatePolicy fails when the
\* report has the flag and the required policy does not, and fails when the
\* required policy has the flag and the report does not.
C16_Original_BothDirectionsPerFlag ==
    PolApplied =>
        \A flag \in PolicyFlags :
            /\ (FlagOf(pol.reportPolicy, flag) /\ ~FlagOf(pol.required, flag)) => pol.result # "ok"
            /\ (FlagOf(pol.required, flag) /\ ~FlagOf(pol.reportPolicy, flag)) => pol.result # "ok"

\* flags that grant the guest a capability, and flags that restrict it
Capabilities == {"migrateMa", "debug", "smt", "cxlAllowed", "memAes256Xts"}
Restrictions == {"singleSocket", "memAes256Xts", "raplDis", "ciphertextHidingDram",
                 "pageSwapDisabled"}

\* C16 (amended): validatePolicy fails exactly when the required ABI version
\* exceeds the report's, or the report enables a capability flag (migration
\* agent, debug, SMT, CXL, AES-256-XTS) that the required policy does not
\* authorize, or the required policy mandates a restriction flag (single
\* socket, AES-256-XTS, RAPL disabled, ciphertext hiding, page swap disabled)
\* that the report lacks; each flag but AES-256-XTS is checked in one
\* direction only.
C16_AsymmetricPerFlag ==
    PolApplied =>
        (pol.result # "ok") <=>
            \/ pol.required.abiMajor > pol.reportPolicy.abiMajor
            \/ /\ pol.required.abiMajor = pol.reportPolicy.abiMajor
               /\ pol.required.abiMinor > pol.reportPolicy.abiMinor
            \/ \E flag \in Capabilities :
                    FlagOf(pol.reportPolicy, flag) /\ ~FlagOf(pol.required, flag)
            \/ \E flag \in Restrictions :
                    FlagOf(pol.required, flag) /\ ~FlagOf(pol.reportPolicy, flag)

\* a report with CXL enabled was rejected by a policy that does not authorize
\* CXL; the same policy authorizes SMT, which the report does not have
C16_Witness ==
    /\ PolApplied
    /\ pol.result = "Found unauthorized CXL capability"
    /\ pol.reportPolicy.cxlAllowed /\ ~pol.required.cxlAllowed
    /\ pol.required.smt /\ ~pol.reportPolicy.smt

PlatApplied == plat.result \notin {"pending", "idle"}

\* C17: validatePlatformInfo fails when the report has SMT enabled and the
\* required platform info does not allow it, fails when the required platform
\* info mandates ECC, TSME, RAPL-disabled, ciphertext hiding, alias check
\* complete or TIO and the report lacks it, and succeeds for every other
\* combination of flags.
C17_PlatformInfoRule ==
    PlatApplied =>
        LET r == plat.reportInfo
            q == plat.required
        IN  (plat.result # "ok") <=>
                \/ (r.smtEnabled /\ ~q.smtEnabled)
                \/ (q.eccEnabled /\ ~r.eccEnabled)
                \/ (q.tsmeEnabled /\ ~r.tsmeEnabled)
                \/ (q.raplDisabled /\ ~r.raplDisabled)
                \/ (q.ciphertextHidingDramEnabled /\ ~r.ciphertextHidingDramEnabled)
                \/ (q.aliasCheckComplete /\ ~r.aliasCheckComplete)
                \/ (q.tioEnabled /\ ~r.tioEnabled)

\* a report lacking only the mandated TIO was rejected
C17_Witness ==
    /\ PlatApplied
    /\ plat.result = "Required TIO not enabled"
    /\ plat.required.tioEnabled /\ ~plat.reportInfo.tioEnabled
    /\ plat.reportInfo.eccEnabled /\ ~plat.required.eccEnabled

ValApplied == val.result \notin {"pending", "idle"}

\* C11: validateReport returns only if the leaf certificate's BL_SPL, TEE_SPL,
\* SNP_SPL and UCODE extensions hold the four sub-fields of the report's
\* reported TCB and either the report's mask-chip-key flag is clear and the
\* leaf's HWID extension equals the report's chip id, or the flag is set and
\* the chip id is all zero; for every options value.
C11_LeafBoundToReport ==
    (ValApplied /\ val.result = "ok") =>
        LET tcb == val.report.reportedTcb
            chipId == val.report.chipId
        IN  /\ val.vcek.BL_SPL = Extension(DerInteger(tcb[1]))
            /\ val.vcek.TEE_SPL = Extension(DerInteger(tcb[2]))
            /\ val.vcek.SNP_SPL = Extension(DerInteger(tcb[7]))
            /\ val.vcek.UCODE = Extension(DerInteger(tcb[8]))
            /\ \/ ~val.report.maskChipKey /\ val.vcek.HWID = Extension(chipId)
               \/ val.report.maskChipKey /\ \A i \in 1..Len(chipId) : chipId[i] = 0

\* a report with a masked, zeroed chip id passed although the leaf's HWID
\* differs from it, under options without a TCB minimum
C11_Witness ==
    /\ ValApplied /\ val.result = "ok"
    /\ val.report.maskChipKey
    /\ val.vcek.HWID # Extension(val.report.chipId)
    /\ ~val.options.minimumTcb.defined

\* C15: a report whose VMPL is outside 0-3 is rejected by validateReport under
\* every options value, the default options included; VMPL 0 and 3 never
\* fail the range check.
C15_VmplRangeAlwaysChecked ==
    ValApplied =>
        /\ (val.report.vmpl \notin 0..3 => val.result # "ok")
        /\ (val.report.vmpl \in {0, 3} => val.result # "VMPL is not in valid range 0-3")

\* the requests issued so far for a URL
RequestsFor(url) == {i \in DOMAIN requests : requests[i].url = url}

\* C18: when two calls of fromReport for the same cache key have both found
\* no entry under it and both wait for the leaf certificate, one request for
\* that certificate has been issued, not two
C18_OneFetchForConcurrentCallers ==
    \A c, d \in Callers :
        ( /\ c # d
          /\ cacheKey(chain[c].report) = cacheKey(chain[d].report)
          /\ chain[c].pc = "fetch" /\ chain[d].pc = "fetch"
          /\ localStorage.defined
          /\ ~chain[c].cached.present /\ ~chain[d].cached.present )
        => Cardinality(RequestsFor(chain[c].url)) = 1

\* a stored string that is not the base64 text of a certificate
Corrupt(item) ==
    /\ item.present
    /\ ~(atob(item.value).ok /\ IsCertificate(atob(item.value).bytes))

\* C19: a call of fromReport that found a corrupt entry under its key has,
\* when it ends, evicted the entry and requested the certificate again; the
\* corrupt entry is not under the key any more, and a call that returns
\* returns the certificate it fetched
C19_CorruptEntryEvictedAndRefetched ==
    \A c \in Callers :
        ( /\ chain[c].pc \in {"done", "threw"}
          /\ localStorage.defined
          /\ Corrupt(chain[c].cached) )
        => /\ chain[c].evicted
           /\ \E i \in DOMAIN requests : requests[i].by = c
           /\ localStorage.items[cacheKey(chain[c].report)] # chain[c].cached
           /\ (chain[c].pc = "done" => chain[c].vcek = X509Certificate(chain[c].response.body))

\* the operations that reach outside the process
ExternalOperations ==
    {"getRouterAddress", "fetchAttestation", "fetchVCEK", "fetchLatestDigest",
     "fetchAttestationBundle"}

\* C20: within one verify() call no request is sent twice, the attestation
\* report, the provenance bundle, the leaf certificate and the router list are
\* each requested at most once and the release digest by at most the release
\* request and the request for its hash file, and a request that failed is
\* the last request of the call
C20_NoRetryFailureTerminal ==
    \A p \in Procs :
        LET sent == ops[p]
        IN  /\ \A i, j \in DOMAIN sent : sent[i].url = sent[j].url => i = j
            /\ \A i \in DOMAIN sent : sent[i].op \in ExternalOperations
            /\ \A op \in ExternalOperations \ {"fetchLatestDigest"} :
                  Cardinality({i \in DOMAIN sent : sent[i].op = op}) <= 1
            /\ Cardinality({i \in DOMAIN sent : sent[i].op = "fetchLatestDigest"}) <= 2
            /\ \A i \in DOMAIN sent : ~sent[i].ok => i = Len(sent)

\* a call that fetched the report, the leaf certificate and the release, and
\* ended when the request for the hash file failed
C20_Witness ==
    \E p \in Procs :
        /\ pc[p] = "threw"
        /\ Len(ops[p]) = 4
        /\ ops[p][1].op = "fetchAttestation" /\ ops[p][1].ok
        /\ ops[p][2].op = "fetchVCEK" /\ ops[p][2].ok
        /\ ops[p][3].op = "fetchLatestDigest" /\ ops[p][3].ok
        /\ ops[p][4].op = "fetchLatestDigest" /\ ~ops[p][4].ok
        /\ steps[p]["fetchDigest"].status = "failed"
        /\ thrown[p] = "Failed to fetch attestation digest"

\* sub-field by sub-field, the TCB word is at least the minimum
MeetsEverySubField(word, minimum) ==
    /\ word[1] >= minimum.blSpl
    /\ word[2] >= minimum.teeSpl
    /\ word[7] >= minimum.snpSpl
    /\ word[8] >= minimum.ucodeSpl

\* C27: with a minimum TCB configured, validateReport returns only if the
\* current, the committed and the reported TCB each meet the minimum in the
\* boot loader, TEE, SNP and microcode sub-field separately
C27_TcbFloorPerSubField ==
    (val.result = "ok" /\ val.options.minimumTcb.defined)
    => \A word \in {val.report.currentTcb, val.report.committedTcb, val.report.reportedTcb} :
          MeetsEverySubField(word, val.options.minimumTcb.value)

\* a report whose current TCB is above the minimum in microcode, SNP and TEE
\* and below it in the boot loader is rejected for its current TCB
C27_Witness ==
    /\ val.result = "Current TCB does not meet minimum requirements"
    /\ val.options.minimumTcb = Defined(ConfiguredMinimumTcb)
    /\ val.report.currentTcb = TcbWord(6, 2, 15, 73)
    /\ val.report.committedTcb = TcbWord(8, 2, 15, 73)
    /\ val.report.reportedTcb = TcbWord(8, 2, 15, 73)

\* C28: validateReport never returns when the options permit provisional
\* firmware, and when they do not it returns only if the committed and the
\* current build, minor version, major version and TCB are pairwise equal
C28_ProvisionalFirmware ==
    val.result = "ok"
    => /\ ~val.options.permitProvisionalFirmware
       /\ val.report.committedBuild = val.report.currentBuild
       /\ val.report.committedMinor = val.report.currentMinor
       /\ val.report.committedMajor = val.report.currentMajor
       /\ val.report.committedTcb = val.report.currentTcb

\* a report that meets every minimum and differs only in its committed major
\* version is rejected for that difference
C28_Witness ==
    /\ val.result = "Committed major version does not match current major version"
    /\ ~val.options.permitProvisionalFirmware
    /\ val.report.committedMajor = 2 /\ val.report.currentMajor = 1
    /\ val.report.committedBuild = val.report.currentBuild
    /\ val.report.committedTcb = val.report.currentTcb

\* C24: a call of fromReport with a report of another product than Genoa, or
\* signed by another key than the VCEK, ends by throwing the error of that
\* guard, and has at no time read the leaf-certificate cache or requested a
\* leaf certificate
C24_GuardsBeforeCacheAndFetch ==
    \A c \in Callers :
        ( /\ chain[c].pc # "start"
          /\ \/ chain[c].report.productName # "Genoa"
             \/ chain[c].report.signingKey # VcekReportSigner )
        => /\ chain[c].pc = "threw"
           /\ chain[c].error =
                 IF chain[c].report.productName # "Genoa"
                 THEN "This implementation only supports Genoa processors"
                 ELSE "This implementation only supports VCEK signed reports"
           /\ ~chain[c].read
           /\ \A i \in DOMAIN requests : requests[i].by # c

\* a Genoa report signed by the VLEK is rejected although the cache holds an
\* entry under its key, which served the other caller without a request
C24_Witness ==
    \E c, d \in Callers :
        /\ chain[c].pc = "threw"
        /\ chain[c].report.productName = "Genoa"
        /\ chain[c].report.signingKey = VlekReportSigner
        /\ localStorage.defined
        /\ Truthy(localStorage.items[cacheKey(chain[c].report)])
        /\ chain[d].pc = "done"
        /\ requests = <<>>

\* the two slots hold two invocations that overlapped: the second was entered
\* while the first was suspended
Overlapped == callNo["callA"] = 1 /\ callNo["callB"] = 2

\* C30: when the later-completing of two overlapping verify() calls
\* completes, the stored document is the one that call wrote, whole: its
\* identity, its steps map, its verdict and, for a call that returns, its
\* digest and measurements are that call's, none the other call's; and no
\* step of a call changes the other call's steps map
C30_LastCompletedCallOwnsDocument ==
    [][\A p, q \in Procs :
         /\ (p # q /\ steps'[p] # steps[p] /\ pc[p] \notin Finished) => steps'[q] = steps[q]
         /\ ( /\ p # q
              /\ Overlapped
              /\ pc[q] \in {"returned", "threw"}
              /\ (Returns(p) \/ Throws(p)) )
            => /\ doc'.defined
               /\ doc'.object = callNo[p]
               /\ doc'.steps = steps'[p]
               /\ doc'.securityVerified = (pc'[p] = "returned")
               /\ Returns(p) => /\ doc'.releaseDigest = digest[p]
                                /\ doc'.codeMeasurement = code[p]
                                /\ doc'.enclaveMeasurement = amd[p]
      ]_vars

\* the integer a little-endian component of the report's signature denotes
LittleEndianInteger(bytes) == stripLeadingZeros(reverseBytes(bytes))

\* the integer an encoded component denotes: an unsigned big-endian number, or
\* the content of a DER INTEGER (NotAnInteger when it is negative or malformed)
NotAnInteger == <<256>>
EncodedInteger(copy, component) ==
    IF copy = "raw"
    THEN stripLeadingZeros(component)
    ELSE IF Len(component) >= 3 /\ component[1] = DER_INTEGER
            /\ component[2] = Len(component) - 2 /\ component[3] < 128
    THEN stripLeadingZeros(SubSeq(component, 3, Len(component)))
    ELSE NotAnInteger

\* C29: the R and the S handed to the cryptographic primitive denote the same
\* integers as the report's 72-byte little-endian R and S, so that components
\* denoting different integers are never encoded alike
C29_ComponentsKeepTheirInteger ==
    sig.invoked =>
        /\ EncodedInteger(sig.copy, sig.encoded.r)
             = LittleEndianInteger(signatureSlice(sig.data, 0, ECDSA_RS_SIZE))
        /\ EncodedInteger(sig.copy, sig.encoded.s)
             = LittleEndianInteger(signatureSlice(sig.data, ECDSA_RS_SIZE,
                                                  ECDSA_RS_SIZE + ECDSA_RS_SIZE))

\* C26: the cryptographic primitive is invoked only for a report whose
\* signature algorithm is 1 (ECDSA P-384 with SHA-384); for any other value
\* verifyReportSignature throws "Unknown SignatureAlgo" without invoking it
C26_AlgorithmRejectedBeforePrimitive ==
    /\ sig.invoked => sig.report.ok /\ sig.report.report.signatureAlgo = 1
    /\ (sig.pc = "done" /\ sig.report.ok /\ sig.report.report.signatureAlgo # 1)
           => /\ ~sig.invoked
              /\ sig.result = "throws"
              /\ sig.error = [text |-> "Unknown SignatureAlgo:",
                              numbers |-> <<sig.report.report.signatureAlgo>>]

\* a parsed report with signature algorithm 0 was refused by
\* verifyReportSignature, the primitive never invoked
C26_Witness ==
    /\ sig.pc = "done"
    /\ sig.report.ok
    /\ sig.report.report.signatureAlgo = 0
    /\ sig.result = "throws"
    /\ ~sig.invoked

\* the three links of the chain ARK > ASK > VCEK
RootSelfSigned == vch.ark.signedBy = vch.ark.key
IntermediateSignedByRoot == vch.ask.signedBy = vch.ark.key
LeafSignedByIntermediate == vch.vcek.signedBy = vch.ask.key
FormatsAndDatesPass ==
    \A cert \in {vch.ark, vch.ask, vch.vcek} : cert.formatOk /\ cert.validNow
ChainError(text) == Message("Certificate chain verification failed: Error: " \o text)

\* C25: verifyChain returns true only if the root is self-signed, the
\* intermediate is signed by the root and the leaf by the intermediate; it
\* never returns false: a chain with a link that does not hold makes it throw,
\* and when the signature check of a link is what failed, the error names
\* that link
C25_ChainLinksOrThrow ==
    vch.pc = "done" =>
        /\ vch.result \in {"true", "throws"}
        /\ vch.result = "true" <=>
               (FormatsAndDatesPass /\ RootSelfSigned /\ IntermediateSignedByRoot
                   /\ LeafSignedByIntermediate)
        /\ (FormatsAndDatesPass /\ vch.ark.signedBy \in {"ASK", "other"})
               => vch.error = ChainError("ARK certificate is not self-signed")
        /\ (FormatsAndDatesPass /\ RootSelfSigned /\ vch.ask.signedBy \in {"ASK", "other"})
               => vch.error = ChainError("ASK certificate is not signed by ARK")
        /\ (FormatsAndDatesPass /\ RootSelfSigned /\ IntermediateSignedByRoot
               /\ vch.vcek.signedBy \in {"ARK", "other"})
               => vch.error = ChainError("VCEK certificate is not signed by ASK")

\* a chain whose only defect is a leaf signed by the root instead of the
\* intermediate was refused with the error naming the leaf's link
C25_Witness ==
    /\ vch.pc = "done"
    /\ FormatsAndDatesPass /\ RootSelfSigned /\ IntermediateSignedByRoot
    /\ vch.vcek.signedBy = "ARK"
    /\ vch.result = "throws"
    /\ vch.error = ChainError("VCEK certificate is not signed by ASK")

\* C23: an attestation response (measurement and keys) exists only after the
\* report was parsed, the chain verified, the report's signature verified with
\* the leaf certificate's key and validateReport passed under the default
\* options, in this order; when any of them fails there is no response
C23_ResponseOnlyAfterAllChecks ==
    /\ att.response.defined =>
          /\ att.log = <<"parsed", "chainVerified", "signatureVerified", "validated">>
          /\ Report(att.data).ok
          /\ att.leaf = "fetched"
          /\ verifyChain(att.certs).result = "true"
          /\ Report(att.data).report.signatureAlgo = 1
          /\ att.key = att.certs.vcek.key
          /\ att.isValid = "true"
          /\ validateReport(Scenario(att.deviations).report, Scenario(att.deviations).vcek,
                            defaultValidationOptions) = "ok"
          /\ att.error = NoError
    /\ (att.pc = "done" /\ att.log # <<"parsed", "chainVerified", "signatureVerified", "validated">>)
          => ~att.response.defined /\ att.error # NoError
    /\ \A i \in 1..Len(att.log) :
          att.log[i] = <<"parsed", "chainVerified", "signatureVerified", "validated">>[i]

\* a version-2 document passed every check and its response carries the
\* report's measurement
C23_Witness ==
    /\ att.pc = "done"
    /\ att.format = SevGuestV2
    /\ att.response.defined
    /\ att.response.measurement.type = SevGuestV2
    /\ att.log = <<"parsed", "chainVerified", "signatureVerified", "validated">>

\* C21: whatever calls of ready(), fetch and getVerificationDocument() are
\* made on a client and however they interleave, initialisation starts at most
\* once and Verifier.verify is called at most once, neither before the first
\* call; a settled initialisation is never started again, and every call that
\* ended has the outcome of that one initialisation: rejected with its error
\* when it failed (getVerificationDocument after it may instead hand out the
\* failed document), and fulfilled only when it succeeded
C21_InitialisedAtMostOnce ==
    /\ sc.inits <= 1 /\ sc.verifyCalls <= 1 /\ sc.verifyCalls <= sc.inits
    /\ (\A c \in ClientCalls : sc.call[c].pc = "idle") => sc.inits = 0 /\ sc.initPromise = "null"
    /\ (\E c \in ClientCalls : sc.call[c].pc # "idle") => sc.inits = 1
    /\ \A c \in ClientCalls :
          sc.call[c].pc = "done" =>
              /\ sc.initPromise \in {"fulfilled", "rejected"}
              /\ (sc.initPromise = "rejected") =>
                     \/ sc.call[c].result = "rejected" /\ sc.call[c].error = sc.initError
                     \/ /\ sc.call[c].kind = "getVerificationDocument"
                        /\ sc.call[c].result \in {"failed", "fallback", "rejected"}
              /\ sc.call[c].result \in {"fulfilled", "verified"} => sc.initPromise = "fulfilled"

\* three calls ended after an initialisation that failed, started once
C21_Witness ==
    /\ \A c \in ClientCalls : sc.call[c].pc = "done"
    /\ sc.initPromise = "rejected"
    /\ sc.inits = 1
    /\ \E c \in ClientCalls : c > 1 /\ sc.call[c].kind = "fetch" /\ sc.call[c].result = "rejected"

VerificationFailed == sc.initPromise = "rejected" /\ sc.initError = "verify failed"

\* C22: once Verifier.verify failed during initialisation, every ready() that
\* ended rejected, no secure transport exists or was ever created, and every
\* request that ended rejected with the verification error and was not sent
C22_FailedVerificationBlocksRequests ==
    /\ VerificationFailed =>
          /\ sc.fetch = "null" /\ sc.transports = 0 /\ sc.sent = 0
          /\ \A c \in ClientCalls :
                (sc.call[c].pc = "done" /\ sc.call[c].kind \in {"ready", "fetch"}) =>
                    /\ sc.call[c].result = "rejected"
                    /\ sc.call[c].error = "verify failed"
                    /\ ~sc.call[c].sent
    \* a verification that failed leaves the initialisation rejected
    /\ (sc.initPc = "done" /\ sc.verifyCalls = 1 /\ sc.transports = 0
           /\ sc.verificationDocument \in {"failed", "fallback"}) => sc.initPromise = "rejected"

\* verification failed, ready() rejected and a later request rejected unsent
C22_Witness ==
    /\ VerificationFailed
    /\ sc.call[1].kind = "ready" /\ sc.call[1].pc = "done" /\ sc.call[1].result = "rejected"
    /\ sc.call[2].kind = "fetch" /\ sc.call[2].pc = "done" /\ sc.call[2].error = "verify failed"
    /\ ~sc.call[2].sent
====
